---- MODULE Spec2Model ----
(***************************************************************************)
(* video2text_helper: the task orchestrator (core/task_manager.py) with    *)
(* its collaborators DownloadTask (core/download_manager.py),              *)
(* SubtitleManager (core/subtitle_manager.py) and WhisperModelManager      *)
(* (core/transcribe_manager.py), driven either by an arbitrary caller      *)
(* (Spec) or by the GUI of app.py (SpecRun).                               *)
(*                                                                         *)
(* Times are integer milliseconds.  Texts are sequences of one-character   *)
(* strings.  The Chinese message literals of the source are rendered by    *)
(* ASCII tags ("msg_cancelled" for the task-cancelled message, ...).       *)
(***************************************************************************)
EXTENDS Integers, Sequences, FiniteSets, TLC

\* ------------------------------------------------------------------ bounds
\* Number of start() calls that are accepted (each launches one worker thread).
MaxRuns == 2

\* segments one transcription goes through before its last callback
MaxSegments == 5

Workers == 1..MaxRuns

\* ------------------------------------------------------------ TaskStatus
IDLE == "idle"
FETCHING_INFO == "fetching_info"
CHECKING_SUBTITLE == "checking_subtitle"
DOWNLOADING_SUBTITLE == "downloading_subtitle"
DOWNLOADING_AUDIO == "downloading_audio"
TRANSCRIBING == "transcribing"
PARSING_SUBTITLE == "parsing_subtitle"
COMPLETED == "completed"
CANCELLED == "cancelled"
ERROR == "error"

TaskStatus == {IDLE, FETCHING_INFO, CHECKING_SUBTITLE, DOWNLOADING_SUBTITLE, DOWNLOADING_AUDIO, TRANSCRIBING, PARSING_SUBTITLE, COMPLETED, CANCELLED, ERROR}

Terminal == {COMPLETED, CANCELLED, ERROR}

\* --------------------------------------------------------------- messages
MsgCancelled == "msg_cancelled"
MsgNoInfo == "msg_no_video_info"
MsgAudioFailed == "msg_audio_download_failed"
MsgTranscribeFailed == "msg_transcribe_failed"
MsgSaveFailed == "msg_save_failed"
MsgException == "msg_exception_text"

NoPath == "null"
NoError == "null"
OutputPath == "task_folder/safe_title.ext"

\* ------------------------------------------------------- inputs of a run
Formats == {"text", "srt", "vtt"}

\* The keyword arguments of start() that decide the control flow.
StartArgs == [force_whisper : BOOLEAN, output_format : Formats, with_timestamps : BOOLEAN]

\* get_video_info returned None
NoInfo == [ok |-> FALSE, manual |-> <<>>, auto |-> <<>>]

\* What get_video_info can return on success: the two track lists.
VideoInfos == [ok : {TRUE}, manual : {<<>>, <<"en">>}, auto : {<<>>, <<"en">>}]

\* =====================================================================
\* Texts: sequences of one-character strings.
\* =====================================================================
NL == "\n"
SP == " "

RECURSIVE Repeat(_, _)
Repeat(c, n) == IF n <= 0 THEN <<>> ELSE <<c>> \o Repeat(c, n - 1)

\* s[i..] starts with pat
StartsWithAt(s, i, pat) == /\ i + Len(pat) - 1 <= Len(s)
                           /\ \A k \in 1..Len(pat) : s[i + k - 1] = pat[k]

Drop(s, n) == SubSeq(s, n + 1, Len(s))

\* str.replace(pat, rep): leftmost, non-overlapping occurrences
RECURSIVE Replace(_, _, _)
Replace(s, pat, rep) ==
    IF s = <<>> THEN <<>>
    ELSE IF StartsWithAt(s, 1, pat) THEN rep \o Replace(Drop(s, Len(pat)), pat, rep)
    ELSE <<s[1]>> \o Replace(Tail(s), pat, rep)

\* str.strip() (the texts of the model hold no whitespace but SP and NL)
IsSpace(c) == c \in {SP, NL}

RECURSIVE LStrip(_)
LStrip(s) == IF s # <<>> /\ IsSpace(s[1]) THEN LStrip(Tail(s)) ELSE s

RECURSIVE RStrip(_)
RStrip(s) == IF s # <<>> /\ IsSpace(s[Len(s)]) THEN RStrip(SubSeq(s, 1, Len(s) - 1)) ELSE s

Strip(s) == RStrip(LStrip(s))

\* index of the first c in s at or after i, 0 when there is none
RECURSIVE IndexFrom(_, _, _)
IndexFrom(s, c, i) == IF i > Len(s) THEN 0 ELSE IF s[i] = c THEN i ELSE IndexFrom(s, c, i + 1)

\* re.sub(r'<[^>]+>', '', text): a '<', one or more characters that are not
\* '>', then '>'; matches are taken leftmost and do not overlap.
RECURSIVE StripTags(_)
StripTags(s) ==
    IF s = <<>> THEN <<>>
    ELSE LET j == IndexFrom(s, ">", 2)
         IN IF s[1] = "<" /\ j > 2 THEN StripTags(Drop(s, j))
            ELSE <<s[1]>> \o StripTags(Tail(s))

\* re.sub(r'^OPEN.*?CLOSE COLON\s*', '', text): only at the start of the
\* text, the shortest label, then the whitespace that follows it.
RECURSIVE LabelEnd(_, _, _, _)
LabelEnd(s, close, colon, i) ==
    IF i + 1 > Len(s) THEN 0
    ELSE IF s[i] = close /\ s[i + 1] = colon THEN i + 1
    ELSE LabelEnd(s, close, colon, i + 1)

StripSpeaker(s, open, close, colon) ==
    IF s # <<>> /\ s[1] = open /\ LabelEnd(s, close, colon, 2) > 0
    THEN LStrip(Drop(s, LabelEnd(s, close, colon, 2)))
    ELSE s

\* lines 311-315: the five entities, replaced in this order
Unescape(s) ==
    LET a == Replace(s, <<"&", "n", "b", "s", "p", ";">>, <<SP>>)
        b == Replace(a, <<"&", "a", "m", "p", ";">>, <<"&">>)
        c == Replace(b, <<"&", "l", "t", ";">>, <<"<">>)
        d == Replace(c, <<"&", "g", "t", ";">>, <<">">>)
    IN Replace(d, <<"&", "q", "u", "o", "t", ";">>, <<"\"">>)

\* lines 301-317: the cleaning of one segment's text
\* ASCII stand-ins for the full-width bracket and colon characters of line 308
FwOpen == "{"
FwClose == "}"
FwColon == ";"

CleanText(text) ==
    Strip(Unescape(StripSpeaker(StripSpeaker(StripTags(text), "[", "]", ":"), FwOpen, FwClose, FwColon)))

\* lines 299-323: clean every segment, drop those whose text becomes empty
RECURSIVE CleanedSegments(_)
CleanedSegments(segs) ==
    IF segs = <<>> THEN <<>>
    ELSE LET t == CleanText(segs[1].text)
         IN (IF t # <<>> THEN <<[start |-> segs[1].start, end |-> segs[1].end, text |-> t]>> ELSE <<>>)
            \o CleanedSegments(Tail(segs))

\* lines 325-331: drop a segment whose text equals that of the segment before it
RECURSIVE Dedupe(_, _)
Dedupe(segs, prev_text) ==
    IF segs = <<>> THEN <<>>
    ELSE IF segs[1].text # prev_text THEN <<segs[1]>> \o Dedupe(Tail(segs), segs[1].text)
    ELSE Dedupe(Tail(segs), prev_text)

NoText == <<NL>>

DedupedSegments(segs) == Dedupe(CleanedSegments(segs), NoText)

\* ------------------------------------------------------- timestamps
Digit(d) == <<"0", "1", "2", "3", "4", "5", "6", "7", "8", "9">>[d + 1]

RECURSIVE Digits(_)
Digits(n) == IF n < 10 THEN <<Digit(n)>> ELSE Digits(n \div 10) \o <<Digit(n % 10)>>

\* f"{n:0Wd}"
Pad(n, width) == Repeat("0", width - Len(Digits(n))) \o Digits(n)

\* ------------------------------------------------------- binary floats
\* A finite float that is not negative: the bits of an integer, most
\* significant first and without leading zeros, times 2^e. A double keeps
\* 53 bits; results are rounded to nearest, ties to even.
Precision == 53

Float(m, e) == [m |-> m, e |-> e]

RECURSIVE BitsOf(_)
BitsOf(n) == IF n = 0 THEN <<>> ELSE BitsOf(n \div 2) \o <<n % 2>>

RECURSIVE NatOfBits(_)
NatOfBits(bits) == IF bits = <<>> THEN 0 ELSE NatOfBits(SubSeq(bits, 1, Len(bits) - 1)) * 2 + bits[Len(bits)]

Zeros(n) == [i \in 1..n |-> 0]

TrimBits(bits) ==
    LET ones == {i \in 1..Len(bits) : bits[i] = 1}
    IN IF ones = {} THEN <<>> ELSE SubSeq(bits, CHOOSE i \in ones : \A k \in ones : i <= k, Len(bits))

\* the trailing zeros of the bits go into the exponent, so that equal
\* values are equal records
Canonical(m, e) ==
    LET ones == {i \in 1..Len(m) : m[i] = 1}
        last == CHOOSE i \in ones : \A k \in ones : k <= i
    IN IF ones = {} THEN Float(<<>>, 0) ELSE Float(TrimBits(SubSeq(m, 1, last)), e + Len(m) - last)

\* a + b, bit by bit: the carry into a position comes from a lower
\* position where both bits are set, through positions where one is
AddBits(a, b) ==
    LET n == (IF Len(a) > Len(b) THEN Len(a) ELSE Len(b)) + 1
        x == Zeros(n - Len(a)) \o a
        y == Zeros(n - Len(b)) \o b
        carry(i) == \E j \in (i + 1)..n : /\ x[j] = 1
                                           /\ y[j] = 1
                                           /\ \A k \in (i + 1)..(j - 1) : x[k] + y[k] >= 1
    IN TrimBits([i \in 1..n |-> (x[i] + y[i] + (IF carry(i) THEN 1 ELSE 0)) % 2])

\* the value bits * 2^e, plus a nonzero amount below its last bit when
\* sticky, rounded to a double
Round(bits, e, sticky) ==
    LET m == TrimBits(bits)
        keep == SubSeq(m, 1, Precision)
        guard == m[Precision + 1]
        rest == sticky \/ \E i \in (Precision + 2)..Len(m) : m[i] = 1
        up == guard = 1 /\ (rest \/ keep[Precision] = 1)
        rounded == IF up THEN AddBits(keep, <<1>>) ELSE keep
    IN IF Len(m) <= Precision THEN Canonical(m, e)
       ELSE Canonical(rounded, e + Len(m) - Precision)

\* bits divided by a small d, sixteen bits at a time:
\* <<quotient bits, remainder>>
RECURSIVE DivChunks(_, _)
DivChunks(bits, d) ==
    IF bits = <<>> THEN <<<<>>, 0>>
    ELSE LET before == DivChunks(SubSeq(bits, 1, Len(bits) - 16), d)
             r == before[2] * 65536 + NatOfBits(SubSeq(bits, Len(bits) - 15, Len(bits)))
             q == BitsOf(r \div d)
         IN <<before[1] \o Zeros(16 - Len(q)) \o q, r % d>>

DivBits(bits, d) == DivChunks(Zeros((16 - (Len(bits) % 16)) % 16) \o bits, d)

FloatOfInt(n) == Canonical(BitsOf(n), 0)

\* the double nearest to n / d, for small n and d; a whole quotient is exact
FloatOfRatio(n, d) ==
    LET q == DivBits(BitsOf(n) \o Zeros(Precision + 11), d)
    IN IF n % d = 0 THEN FloatOfInt(n \div d)
       ELSE Round(q[1], -(Precision + 11), q[2] # 0)

\* x + y in floating point
FloatAdd(x, y) ==
    LET e == IF x.e < y.e THEN x.e ELSE y.e
    IN Round(AddBits(x.m \o Zeros(x.e - e), y.m \o Zeros(y.e - e)), e, FALSE)

\* the bits of m times a small n
RECURSIVE TimesBits(_, _)
TimesBits(m, n) ==
    IF n = 0 THEN <<>>
    ELSE AddBits(TimesBits(m, n \div 2) \o <<0>>, IF n % 2 = 1 THEN m ELSE <<>>)

\* x * n in floating point, for a small integer n
FloatTimes(x, n) == Round(TimesBits(x.m, n), x.e, FALSE)

\* int(x): the integer part, which is small
FloatFloor(x) ==
    IF x.e >= 0 THEN NatOfBits(x.m \o Zeros(x.e))
    ELSE NatOfBits(SubSeq(x.m, 1, Len(x.m) + x.e))

\* x % 1, which is exact
FloatFrac(x) ==
    IF x.e >= 0 THEN Float(<<>>, 0)
    ELSE Canonical(SubSeq(Zeros(-x.e) \o x.m, Len(x.m) + 1, Len(x.m) - x.e), x.e)

\* x <= y
FloatLeq(x, y) ==
    LET e == IF x.e < y.e THEN x.e ELSE y.e
        a == x.m \o Zeros(x.e - e)
        b == y.m \o Zeros(y.e - e)
        n == IF Len(a) > Len(b) THEN Len(a) ELSE Len(b)
        p == Zeros(n - Len(a)) \o a
        q == Zeros(n - Len(b)) \o b
    IN \A i \in 1..n : p[i] > q[i] => \E j \in 1..(i - 1) : p[j] < q[j]

\* a - b for a >= b, bit by bit: a plus the complement of b plus one,
\* without the carry out
SubBits(a, b) ==
    LET n == IF Len(a) > Len(b) THEN Len(a) ELSE Len(b)
        x == Zeros(n - Len(a)) \o a
        y == Zeros(n - Len(b)) \o b
        sum == AddBits(AddBits(x, [i \in 1..n |-> 1 - y[i]]), <<1>>)
        padded == Zeros(n + 1 - Len(sum)) \o sum
    IN TrimBits(SubSeq(padded, 2, n + 1))

\* x - y in floating point, for x >= y
FloatSub(x, y) ==
    LET e == IF x.e < y.e THEN x.e ELSE y.e
    IN Round(SubBits(x.m \o Zeros(x.e - e), y.m \o Zeros(y.e - e)), e, FALSE)

\* seg['start'] - prev_end > paragraph_gap on the floats of the three
\* numbers of thousandths (a difference below zero is not above the gap)
GapExceeds(start_ms, prev_end_ms, paragraph_gap) ==
    LET x == FloatOfRatio(start_ms, 1000)
        y == FloatOfRatio(prev_end_ms, 1000)
    IN IF FloatLeq(x, y) THEN FALSE
       ELSE ~FloatLeq(FloatSub(x, y), FloatOfRatio(paragraph_gap, 1000))

\* subtitle_manager.py lines 391-416 on a float: the floor divisions and
\* remainders by 3600 and 60 are exact, the product by 1000 is rounded
format_timestamp(seconds, sep) ==
    LET whole == FloatFloor(seconds)
        hours == whole \div 3600
        minutes == (whole % 3600) \div 60
        secs == whole % 60
        frac == FloatFrac(seconds)
        millis == IF frac.m = <<>> THEN 0 ELSE FloatFloor(FloatTimes(frac, 1000))
    IN Pad(hours, 2) \o <<":">> \o Pad(minutes, 2) \o <<":">> \o Pad(secs, 2) \o <<sep>> \o Pad(millis, 3)

\* the formatters on the float nearest to ms thousandths of a second
FormatTimestamp(ms, sep) == format_timestamp(FloatOfRatio(ms, 1000), sep)

FormatTimestampForText(ms) == FormatTimestamp(ms, ".")
FormatTimestampSrt(ms) == FormatTimestamp(ms, ",")
FormatTimestampVtt(ms) == FormatTimestamp(ms, ".")

\* ------------------------------------------------------- emitters
RECURSIVE JoinLines(_)
JoinLines(lines) ==
    IF lines = <<>> THEN <<>>
    ELSE IF Len(lines) = 1 THEN lines[1]
    ELSE lines[1] \o <<NL>> \o JoinLines(Tail(lines))

\* lines 333-351: the result lines, with a blank line before a segment that
\* starts more than paragraph_gap after the end of the one before it
RECURSIVE ResultLines(_, _, _, _, _)
ResultLines(segs, prev_end, emitted, with_timestamps, paragraph_gap) ==
    IF segs = <<>> THEN <<>>
    ELSE LET seg == segs[1]
             line == IF with_timestamps
                     THEN <<"[">> \o FormatTimestampForText(seg.start) \o <<SP, "-", ">", SP>>
                          \o FormatTimestampForText(seg.end) \o <<"]", SP>> \o seg.text
                     ELSE seg.text
         IN (IF emitted /\ GapExceeds(seg.start, prev_end, paragraph_gap) THEN <<<<>>>> ELSE <<>>) \o <<line>>
            \o ResultLines(Tail(segs), seg.end, TRUE, with_timestamps, paragraph_gap)

\* re.sub(r' +', ' ', text)
RECURSIVE CollapseSpaces(_)
CollapseSpaces(s) ==
    IF Len(s) < 2 THEN s
    ELSE IF s[1] = SP /\ s[2] = SP THEN CollapseSpaces(Tail(s))
    ELSE <<s[1]>> \o CollapseSpaces(Tail(s))

\* re.sub(r'\n{3,}', '\n\n', text)
RECURSIVE CollapseNewlines(_)
CollapseNewlines(s) ==
    IF Len(s) < 3 THEN s
    ELSE IF s[1] = NL /\ s[2] = NL /\ s[3] = NL THEN CollapseNewlines(Tail(s))
    ELSE <<s[1]>> \o CollapseNewlines(Tail(s))

paragraph_gap_default == 5000

to_text(segments, with_timestamps, paragraph_gap) ==
    IF segments = <<>> THEN <<>>
    ELSE Strip(CollapseNewlines(CollapseSpaces(JoinLines(
             ResultLines(DedupedSegments(segments), 0, FALSE, with_timestamps, paragraph_gap)))))

RECURSIVE SrtLines(_, _)
SrtLines(segs, i) ==
    IF segs = <<>> THEN <<>>
    ELSE <<Digits(i), FormatTimestampSrt(segs[1].start) \o <<SP, "-", "-", ">", SP>> \o FormatTimestampSrt(segs[1].end), segs[1].text, <<>>>>
         \o SrtLines(Tail(segs), i + 1)

to_srt(segments) == IF segments = <<>> THEN <<>> ELSE JoinLines(SrtLines(segments, 1))

WEBVTT == <<"W", "E", "B", "V", "T", "T">>

RECURSIVE VttLines(_)
VttLines(segs) ==
    IF segs = <<>> THEN <<>>
    ELSE <<FormatTimestampVtt(segs[1].start) \o <<SP, "-", "-", ">", SP>> \o FormatTimestampVtt(segs[1].end), segs[1].text, <<>>>>
         \o VttLines(Tail(segs))

to_vtt(segments) ==
    IF segments = <<>> THEN WEBVTT \o <<NL, NL>>
    ELSE JoinLines(<<WEBVTT, <<>>>> \o VttLines(segments))

\* lines 441-446: what save() writes
SaveContent(segments, output_format, with_timestamps) ==
    IF output_format = "srt" THEN to_srt(segments)
    ELSE IF output_format = "vtt" THEN to_vtt(segments)
    ELSE to_text(segments, with_timestamps, paragraph_gap_default)

\* lines 257-270 of transcribe_manager.py
FormatTimestampWhisper(ms, output_format) == FormatTimestamp(ms, IF output_format = "srt" THEN "," ELSE ".")

\* lines 208-224 of transcribe_manager.py: one line per recognised segment
RECURSIVE WhisperLines(_, _, _)
WhisperLines(segs, segment_count, output_format) ==
    IF segs = <<>> THEN <<>>
    ELSE LET start_str == FormatTimestampWhisper(segs[1].start, output_format)
             end_str == FormatTimestampWhisper(segs[1].end, output_format)
             text == Strip(segs[1].text)
             line == IF output_format = "srt"
                     THEN Digits(segment_count) \o <<NL>> \o start_str \o <<SP, "-", "-", ">", SP>> \o end_str \o <<NL>> \o text \o <<NL>>
                     ELSE IF output_format = "vtt"
                     THEN start_str \o <<SP, "-", "-", ">", SP>> \o end_str \o <<NL>> \o text \o <<NL>>
                     ELSE <<"[">> \o start_str \o <<SP, "-", ">", SP>> \o end_str \o <<"]", SP>> \o text
         IN <<line>> \o WhisperLines(Tail(segs), segment_count + 1, output_format)

\* lines 245-251 of transcribe_manager.py
TranscribeResult(segs, output_format) ==
    IF output_format = "vtt" THEN WEBVTT \o <<NL, NL>> \o JoinLines(WhisperLines(segs, 1, output_format))
    ELSE JoinLines(WhisperLines(segs, 1, output_format))

\* =====================================================================
\* Inputs the collaborators can deliver
\* =====================================================================
Hello == <<"H", "e", "l", "l", "o">>
TagOnly == <<"<", "b", ">">>

\* Segment lists SubtitleManager.load can leave in _segments when it returns
\* True (never empty, line 99): a plain cue, a cue whose text is markup
\* only, and two cues with the same text.
ParsedSubtitles == {
    <<[start |-> 0, end |-> 2000, text |-> Hello]>>,
    <<[start |-> 0, end |-> 2000, text |-> TagOnly]>>,
    <<[start |-> 0, end |-> 2000, text |-> Hello], [start |-> 9000, end |-> 9500, text |-> Hello]>> }

\* Segment sequences the recognition model can generate
WhisperSegments == { <<>>, <<[start |-> 0, end |-> 3000, text |-> <<SP>> \o Hello]>> }

\* Percentages the download progress hook reports
AudioPercents == {0, 50, 100}

\* =====================================================================
\* State
\* =====================================================================
VARIABLES
    status,       \* TaskManager._status
    cancelled,    \* TaskManager._cancelled
    currentTask,  \* TaskManager._current_task: 0 (None) or the worker that built it
    tcancel,      \* DownloadTask._cancelled of the task object built by each worker
    tinfo,        \* DownloadTask._video_info of that task object
    pc,           \* position of each worker thread in _run_task
    args,         \* the arguments each worker thread was started with
    loc,          \* local variables of each worker thread
    nStarted,     \* number of worker threads launched so far
    appRunning,   \* TranscriberApp._is_running (app.py)
    fs,           \* the per-run task folder and the artifact file in it
    obs,          \* what the callbacks and collaborators have seen in the current run
    fn            \* a call of a helper on its own: its arguments and what it returned

vars == <<status, cancelled, currentTask, tcancel, tinfo, pc, args, loc, nStarted, appRunning, fs, obs, fn>>

\* no helper call under way
NoCall == [op |-> "none"]

InitLoc == [video_info |-> NoInfo, segments |-> <<>>, obj |-> 0, percent |-> -1, heard |-> <<>>, result |-> <<>>]

\* folder: the task folder exists; exists/content: the transcript file in it
\* and what a completed write put there (downloads go to the intermediate
\* folder of lines 220-224); truncated: a write that failed after open()
\* had created the file left it there, empty or cut short
InitFs == [folder |-> FALSE, exists |-> FALSE, content |-> <<>>, writes |-> 0, truncated |-> FALSE]

InitObs == [entered |-> {}, nSet |-> 0, pct |-> -1, completions |-> <<>>, calls |-> {}, cancelAt |-> "none", cancelIn |-> {}, gap |-> "none", fail |-> "none", afterDone |-> FALSE, writeAfterCancel |-> FALSE, via |-> "none", force |-> FALSE, afterCancel |-> {}, drops |-> {}]

DefaultArgs == [force_whisper |-> FALSE, output_format |-> "text", with_timestamps |-> FALSE]

\* the TaskManager after construction (lines 56-70)
InitTask ==
    /\ status = IDLE
    /\ cancelled = FALSE
    /\ currentTask = 0
    /\ tcancel = [w \in Workers |-> FALSE]
    /\ tinfo = [w \in Workers |-> NoInfo]
    /\ pc = [w \in Workers |-> "none"]
    /\ args = [w \in Workers |-> DefaultArgs]
    /\ loc = [w \in Workers |-> InitLoc]
    /\ nStarted = 0
    /\ appRunning = FALSE
    /\ fs = InitFs
    /\ obs = InitObs

taskVars == <<status, cancelled, currentTask, tcancel, tinfo, pc, args, loc, nStarted, appRunning, fs, obs>>

Init ==
    /\ InitTask
    /\ fn = NoCall

\* ------------------------------------------------------------ callbacks
\* A notification or collaborator call that comes after the completion
\* notification of the run is remembered in afterDone.
Late(o) == o.afterDone \/ Len(o.completions) > 0

set_status(o, s) == [o EXCEPT !.entered = @ \cup {s}, !.nSet = @ + 1, !.afterDone = Late(o)]

\* drops: the pairs <<previous, new>> of consecutive percent values of one
\* run of which the new one is the smaller
progress(o, percent) ==
    [o EXCEPT !.pct = percent, !.afterDone = Late(o),
              !.drops = IF percent < o.pct THEN @ \cup {<<o.pct, percent>>} ELSE @]

complete(o, success, output_path, error) ==
    [o EXCEPT !.completions = Append(@, [success |-> success, output_path |-> output_path, error |-> error])]

call(o, name) == [o EXCEPT !.calls = @ \cup {name}, !.afterDone = Late(o)]

\* The collaborator call `name` is begun, or goes on past one of its
\* progress callbacks, at a place where the code does not look at
\* _cancelled: recorded when cancel() has already returned.
Unchecked(o, name) == [o EXCEPT !.afterCancel = IF cancelled THEN @ \cup {name} ELSE @]

\* the collaborator call `name` returned its failure value (None)
Failed(o, name) == [o EXCEPT !.fail = name]

\* the observations at the start of a worker step
Obs0 == [obs EXCEPT !.gap = "none"]

is_running == status \notin {IDLE, COMPLETED, CANCELLED, ERROR}

Live(w) == pc[w] \notin {"none", "done"}

\* ------------------------------------------------------------ worker steps
\* The callbacks are those app.py installs (lines 46-51); what they and the
\* collaborators see is recorded in obs while the GUI has a task running.
\* Without callbacks _log, _progress, _set_status and _complete notify
\* nobody (lines 103-125).
Continue(w, p, l, s, o) ==
    /\ pc' = [pc EXCEPT ![w] = p]
    /\ loc' = [loc EXCEPT ![w] = l]
    /\ status' = s
    /\ obs' = IF appRunning THEN o ELSE obs
    /\ UNCHANGED <<appRunning, args>>

\* Faulty variant: _complete(...) before _set_status(terminal status).
Finish_CompletesFirst(w, s, o, success, output_path, error) ==
    /\ pc' = [pc EXCEPT ![w] = "done"]
    /\ loc' = [loc EXCEPT ![w] = InitLoc]
    /\ status' = s
    /\ obs' = IF appRunning THEN set_status(complete(o, success, output_path, error), s) ELSE obs
    /\ appRunning' = FALSE
    /\ args' = [args EXCEPT ![w] = DefaultArgs]

\* _set_status(terminal status); _complete(...); return.  The completion
\* callback of app.py (lines 389-392) resets _is_running.
Finish(w, s, o, success, output_path, error) ==
    /\ pc' = [pc EXCEPT ![w] = "done"]
    /\ loc' = [loc EXCEPT ![w] = InitLoc]
    /\ status' = s
    /\ obs' = IF appRunning THEN complete(set_status(o, s), success, output_path, error) ELSE obs
    /\ appRunning' = FALSE
    /\ args' = [args EXCEPT ![w] = DefaultArgs]

\* lines 363-367: the outermost handler of _run_task
Raise(w, o) == Finish(w, ERROR, o, FALSE, NoPath, MsgException)

\* lines 287-290
AudioStart(w, o) ==
    Continue(w, "dl_audio", loc[w], DOWNLOADING_AUDIO, progress(set_status(o, DOWNLOADING_AUDIO), 20))

\* the artifact file is written (open(output_path, 'w'); f.write(content))
WriteArtifact(content) == [fs EXCEPT !.exists = TRUE, !.content = content, !.writes = @ + 1, !.truncated = FALSE]

\* open(output_path, 'w') or f.write raises: open() failing leaves the
\* folder as it was, f.write failing leaves the file open() created
FailedWrite(left) == [fs EXCEPT !.exists = @ /\ ~left, !.truncated = @ \/ left]

\* a write that left a file in the folder, seen against the cancel flag
Attempted(o, left) == [o EXCEPT !.writeAfterCancel = @ \/ (left /\ cancelled)]

Written(o, via) == [o EXCEPT !.via = via, !.writeAfterCancel = @ \/ cancelled]

\* The task object built by worker t is garbage once _current_task points
\* to the object of worker w and no running call of another thread holds it.
Unreferenced(t, w) == \A v \in Workers \ {w} : ~(Live(v) /\ loc[v].obj = t)

\* lines 183-201: build the DownloadTask, enter FetchingInfo, call get_video_info
RunInit(w) ==
    /\ pc[w] = "init"
    /\ currentTask' = w
    /\ tcancel' = [t \in Workers |-> IF t = w \/ Unreferenced(t, w) THEN FALSE ELSE tcancel[t]]
    /\ tinfo' = [t \in Workers |-> IF t = w \/ Unreferenced(t, w) THEN NoInfo ELSE tinfo[t]]
    /\ Continue(w, "get_info", [InitLoc EXCEPT !.obj = w], FETCHING_INFO,
                Unchecked(call(progress(set_status(Obs0, FETCHING_INFO), 5), "get_video_info"), "get_video_info"))
    /\ UNCHANGED <<cancelled, nStarted, fs, fn>>

\* Faulty variant of lines 203-211: the `if not video_info` return is
\* missing and the run goes on to the folder creation.
AfterGetInfo_NoFailureReturn(w, video_info, o) ==
    IF cancelled THEN Finish(w, CANCELLED, o, FALSE, NoPath, MsgCancelled)
    ELSE Continue(w, "mkfolder", [loc[w] EXCEPT !.video_info = video_info], status, o)

\* lines 203-211
AfterGetInfo(w, video_info, o) ==
    IF cancelled THEN Finish(w, CANCELLED, o, FALSE, NoPath, MsgCancelled)
    ELSE IF ~video_info.ok THEN Finish(w, ERROR, o, FALSE, NoPath, MsgNoInfo)
    ELSE Continue(w, "mkfolder", [loc[w] EXCEPT !.video_info = video_info], status, o)

\* get_video_info returns (download_manager.py lines 105-139)
GetInfoReturn(w) ==
    /\ pc[w] = "get_info"
    /\ \E info \in VideoInfos \cup {NoInfo} :
        /\ tinfo' = [tinfo EXCEPT ![loc[w].obj] = IF info.ok THEN info ELSE @]
        /\ AfterGetInfo(w, info, IF info.ok THEN Obs0 ELSE Failed(Obs0, "get_video_info"))
    /\ UNCHANGED <<cancelled, currentTask, tcancel, nStarted, fs, fn>>

\* Faulty variant of lines 229-235: force_whisper is not consulted.
AfterCreateFolder_IgnoresForce(w) ==
    Continue(w, "check_sub", loc[w], CHECKING_SUBTITLE, progress(set_status(Obs0, CHECKING_SUBTITLE), 10))

\* lines 229-235, and 287-290 when the transcription path is forced
AfterCreateFolder(w) ==
    IF ~args[w].force_whisper
    THEN Continue(w, "check_sub", loc[w], CHECKING_SUBTITLE, progress(set_status(Obs0, CHECKING_SUBTITLE), 10))
    ELSE AudioStart(w, Obs0)

\* lines 213-227: _create_output_folder and os.makedirs, which can raise
CreateFolder(w) ==
    /\ pc[w] = "mkfolder"
    /\ \/ fs' = [fs EXCEPT !.folder = TRUE] /\ AfterCreateFolder(w)
       \/ UNCHANGED fs /\ Raise(w, Obs0)
    /\ UNCHANGED <<cancelled, currentTask, tcancel, tinfo, nStarted, fn>>

\* lines 237-246 and 284-285
CheckSubtitle(w) ==
    /\ pc[w] = "check_sub"
    /\ LET manual_subs == loc[w].video_info.manual
           auto_subs == loc[w].video_info.auto
           has_subtitle == manual_subs # <<>> \/ auto_subs # <<>>
       IN IF has_subtitle
          THEN Continue(w, "dl_sub", loc[w], DOWNLOADING_SUBTITLE, progress(set_status(Obs0, DOWNLOADING_SUBTITLE), 20))
          ELSE AudioStart(w, [Obs0 EXCEPT !.gap = "no_tracks"])
    /\ UNCHANGED <<cancelled, currentTask, tcancel, tinfo, nStarted, fs, fn>>

\* Faulty variant of lines 253-283: a failed subtitle download ends the
\* run in Error instead of falling through.
AfterDownloadSubtitle_FailureIsError(w, subtitle_result, o) ==
    LET o1 == IF subtitle_result THEN o ELSE [o EXCEPT !.gap = "download_failed"]
    IN IF cancelled THEN Finish(w, CANCELLED, o1, FALSE, NoPath, MsgCancelled)
       ELSE IF subtitle_result
       THEN Continue(w, "parse", loc[w], PARSING_SUBTITLE, call(progress(set_status(o1, PARSING_SUBTITLE), 60), "load"))
       ELSE Finish(w, ERROR, o1, FALSE, NoPath, MsgException)

\* lines 253-262 and 282-283
AfterDownloadSubtitle(w, subtitle_result, o) ==
    LET o1 == IF subtitle_result THEN o ELSE [o EXCEPT !.gap = "download_failed"]
    IN IF cancelled THEN Finish(w, CANCELLED, o1, FALSE, NoPath, MsgCancelled)
       ELSE IF subtitle_result
       THEN Continue(w, "parse", loc[w], PARSING_SUBTITLE, call(progress(set_status(o1, PARSING_SUBTITLE), 60), "load"))
       ELSE AudioStart(w, o1)

\* line 248 and download_manager.py lines 258-260: the call starts and
\* returns None at once when the task object is already cancelled
DownloadSubtitleBegin(w) ==
    /\ pc[w] = "dl_sub"
    /\ IF tcancel[currentTask]
       THEN AfterDownloadSubtitle(w, FALSE, call(Obs0, "download_subtitle"))
       ELSE Continue(w, "dl_sub_wait", [loc[w] EXCEPT !.obj = currentTask], status, call(Obs0, "download_subtitle"))
    /\ UNCHANGED <<cancelled, currentTask, tcancel, tinfo, nStarted, fs, fn>>

\* download_manager.py lines 266-374: the catalog is the cached _video_info,
\* fetched again when the task object has none; no track or a failed
\* download gives None
DownloadSubtitleReturn(w) ==
    /\ pc[w] = "dl_sub_wait"
    /\ \E info \in (IF tinfo[loc[w].obj].ok THEN {tinfo[loc[w].obj]} ELSE VideoInfos \cup {NoInfo}), found \in BOOLEAN :
        /\ tinfo' = [tinfo EXCEPT ![loc[w].obj] = IF info.ok THEN info ELSE @]
        /\ AfterDownloadSubtitle(w, info.ok /\ (info.manual # <<>> \/ info.auto # <<>>) /\ found, Obs0)
    /\ UNCHANGED <<cancelled, currentTask, tcancel, nStarted, fs, fn>>

\* Faulty variant of lines 264-290: when load returns False the run goes
\* back to CheckingSubtitle.
AfterLoad_Retries(w, loaded, segments) ==
    IF loaded
    THEN Continue(w, "save_sub", [loc[w] EXCEPT !.segments = segments], status, call(progress(Obs0, 80), "save"))
    ELSE Continue(w, "check_sub", loc[w], CHECKING_SUBTITLE, set_status([Obs0 EXCEPT !.gap = "load_false"], CHECKING_SUBTITLE))

\* lines 264-269, and 287-290 when load returned False
AfterLoad(w, loaded, segments) ==
    IF loaded
    THEN Continue(w, "save_sub", [loc[w] EXCEPT !.segments = segments], status, call(progress(Obs0, 80), "save"))
    ELSE AudioStart(w, [Obs0 EXCEPT !.gap = "load_false"])

\* SubtitleManager.load returns (subtitle_manager.py lines 78-104) or the
\* read raises an error other than a decoding error (lines 112-117)
LoadReturn(w) ==
    /\ pc[w] = "parse"
    /\ \/ \E segments \in ParsedSubtitles : AfterLoad(w, TRUE, segments)
       \/ AfterLoad(w, FALSE, <<>>)
       \/ Raise(w, Obs0)
    /\ UNCHANGED <<cancelled, currentTask, tcancel, tinfo, nStarted, fs, fn>>

\* lines 271-281, and 287-290 when save returned False
AfterSave(w, saved) ==
    IF saved
    THEN /\ fs' = WriteArtifact(SaveContent(loc[w].segments, args[w].output_format, args[w].with_timestamps))
         /\ Finish(w, COMPLETED, progress(Written(Obs0, "subtitle"), 100), TRUE, OutputPath, NoError)
    ELSE \E left \in BOOLEAN :
         /\ fs' = FailedWrite(left)
         /\ AudioStart(w, Attempted([Obs0 EXCEPT !.gap = "save_false"], left))

\* SubtitleManager.save writes the file or fails (subtitle_manager.py lines 448-455)
SaveSubtitle(w) ==
    /\ pc[w] = "save_sub"
    /\ \E saved \in BOOLEAN : AfterSave(w, saved)
    /\ UNCHANGED <<cancelled, currentTask, tcancel, tinfo, nStarted, fn>>

\* lines 292-295
download_progress(percent) == 20 + (percent * 3) \div 10

\* lines 316-321, for total > 0
transcribe_progress(current, total) == 55 + (current * 40) \div total

\* Faulty variant of lines 302-314: the cancellation check of lines
\* 302-305 is missing.
AfterDownloadAudio_NoCancelCheck(w, audio_path, o) ==
    IF ~audio_path THEN Finish(w, ERROR, o, FALSE, NoPath, MsgAudioFailed)
    ELSE Continue(w, "transcribe", loc[w], TRANSCRIBING, call(progress(set_status(o, TRANSCRIBING), 55), "transcribe"))

\* lines 302-314 and the call of line 323
AfterDownloadAudio(w, audio_path, o) ==
    IF cancelled THEN Finish(w, CANCELLED, o, FALSE, NoPath, MsgCancelled)
    ELSE IF ~audio_path THEN Finish(w, ERROR, o, FALSE, NoPath, MsgAudioFailed)
    ELSE Continue(w, "transcribe", loc[w], TRANSCRIBING, call(progress(set_status(o, TRANSCRIBING), 55), "transcribe"))

\* line 297 and download_manager.py lines 164-166
DownloadAudioBegin(w) ==
    /\ pc[w] = "dl_audio"
    /\ IF tcancel[currentTask]
       THEN AfterDownloadAudio(w, FALSE, Failed(call(Obs0, "download_audio"), "download_audio"))
       ELSE Continue(w, "dl_audio_wait", [loc[w] EXCEPT !.obj = currentTask, !.percent = -1], status, call(Obs0, "download_audio"))
    /\ UNCHANGED <<cancelled, currentTask, tcancel, tinfo, nStarted, fs, fn>>

\* download_manager.py lines 176-190 and 224-229: the progress hook raises
\* when the task object is cancelled, and download_audio then returns None
DownloadAudioHook(w) ==
    /\ pc[w] = "dl_audio_wait"
    /\ \E percent \in AudioPercents :
        /\ percent > loc[w].percent
        /\ IF tcancel[loc[w].obj]
           THEN AfterDownloadAudio(w, FALSE, Failed(Obs0, "download_audio"))
           ELSE Continue(w, "dl_audio_wait", [loc[w] EXCEPT !.percent = percent], status, progress(Obs0, download_progress(percent)))
    /\ UNCHANGED <<cancelled, currentTask, tcancel, tinfo, nStarted, fs, fn>>

\* download_manager.py lines 214-229: download_audio returns a path or None
DownloadAudioReturn(w) ==
    /\ pc[w] = "dl_audio_wait"
    /\ \E audio_path \in BOOLEAN :
        AfterDownloadAudio(w, audio_path, IF audio_path THEN Obs0 ELSE Failed(Obs0, "download_audio"))
    /\ UNCHANGED <<cancelled, currentTask, tcancel, tinfo, nStarted, fs, fn>>

\* Faulty variant of lines 332-343: the `if not result` return is missing.
AfterTranscribe_NoFailureReturn(w, returned, result, o) ==
    IF cancelled THEN Finish(w, CANCELLED, o, FALSE, NoPath, MsgCancelled)
    ELSE Continue(w, "save_tr", [loc[w] EXCEPT !.result = result], status, progress(o, 95))

\* lines 332-343
AfterTranscribe(w, returned, result, o) ==
    IF cancelled THEN Finish(w, CANCELLED, o, FALSE, NoPath, MsgCancelled)
    ELSE IF ~returned \/ result = <<>> THEN Finish(w, ERROR, o, FALSE, NoPath, MsgTranscribeFailed)
    ELSE Continue(w, "save_tr", [loc[w] EXCEPT !.result = result], status, progress(o, 95))

\* lines 316-321: the callback handed to transcribe
TranscribeProgress(o, current, total) ==
    IF total > 0 THEN progress(o, transcribe_progress(current, total)) ELSE o

\* transcribe_manager.py line 227: a progress callback every 5 segments
ProgressEvery == 5

\* Faulty variant of transcribe_manager.py line 229: the estimate from the
\* audio position alone.
EstimatedTotal_NoMax(segment_count, last_end_ms) == last_end_ms \div 3000

\* transcribe_manager.py line 229: max(segment_count, int(last_end_time / 3));
\* the quotient of a time in thousandths by 3 is never so close to a whole
\* number from below that the float division reaches it
EstimatedTotal(segment_count, last_end_ms) ==
    LET third == last_end_ms \div 3000
    IN IF segment_count > third THEN segment_count ELSE third

\* the segments between two callbacks: each one second long, or five
Batch(from, each) ==
    [i \in 1..ProgressEvery |-> [start |-> from + (i - 1) * each, end |-> from + i * each, text |-> <<SP>> \o Hello]]

SegmentLengths == {1000, 5000}

\* transcribe_manager.py lines 227-230: the callback inside the segment
\* loop, with the total estimated from the audio position; the loop goes on
\* whatever _cancelled is
TranscribeCallback(w) ==
    /\ pc[w] = "transcribe"
    /\ Len(loc[w].heard) + ProgressEvery <= MaxSegments
    /\ \E each \in SegmentLengths :
        LET from == IF loc[w].heard = <<>> THEN 0 ELSE loc[w].heard[Len(loc[w].heard)].end
            heard == loc[w].heard \o Batch(from, each)
            segment_count == Len(heard)
            estimated_total == EstimatedTotal(segment_count, heard[segment_count].end)
        IN  Continue(w, "transcribe", [loc[w] EXCEPT !.heard = heard], status,
                     Unchecked(TranscribeProgress(Obs0, segment_count, estimated_total), "transcribe"))
    /\ UNCHANGED <<cancelled, currentTask, tcancel, tinfo, nStarted, fs, fn>>

\* transcribe_manager.py lines 177-255: None (missing file, model not
\* loaded, exception), or the rendered segments after the final progress
\* callback of line 243
TranscribeReturn(w) ==
    /\ pc[w] = "transcribe"
    /\ \/ AfterTranscribe(w, FALSE, <<>>, Failed(Obs0, "transcribe"))
       \/ \E rest \in (IF loc[w].heard = <<>> THEN WhisperSegments ELSE {<<>>}) :
            LET segs == loc[w].heard \o rest
                segment_count == Len(segs)
            IN  AfterTranscribe(w, TRUE, TranscribeResult(segs, args[w].output_format),
                                TranscribeProgress(Obs0, segment_count, segment_count))
    /\ UNCHANGED <<cancelled, currentTask, tcancel, tinfo, nStarted, fs, fn>>

\* lines 345-361
AfterWrite(w, written) ==
    IF written
    THEN /\ fs' = WriteArtifact(loc[w].result)
         /\ Finish(w, COMPLETED, progress(Written(Obs0, "whisper"), 100), TRUE, OutputPath, NoError)
    ELSE \E left \in BOOLEAN :
         /\ fs' = FailedWrite(left)
         /\ Finish(w, ERROR, Attempted(Obs0, left), FALSE, NoPath, MsgSaveFailed)

\* lines 348-355: the write succeeds or raises
SaveTranscript(w) ==
    /\ pc[w] = "save_tr"
    /\ \E written \in BOOLEAN : AfterWrite(w, written)
    /\ UNCHANGED <<cancelled, currentTask, tcancel, tinfo, nStarted, fn>>

\* ------------------------------------------------------------ the caller
\* TaskManager.start, lines 153-167: rejected (logged only) while
\* is_running, else a new worker thread is launched.  Each run gets a
\* task folder of its own.
start(a, observed) ==
    IF is_running
    THEN UNCHANGED <<status, cancelled, obs, nStarted, pc, args, loc, fs>>
    ELSE /\ nStarted < MaxRuns
         /\ cancelled' = FALSE
         /\ status' = IDLE
         /\ obs' = IF observed THEN set_status([InitObs EXCEPT !.force = a.force_whisper], IDLE) ELSE obs
         /\ nStarted' = nStarted + 1
         /\ pc' = [pc EXCEPT ![nStarted + 1] = "init"]
         /\ args' = [args EXCEPT ![nStarted + 1] = a]
         /\ fs' = InitFs
         /\ UNCHANGED loc

\* TaskManager.cancel, lines 369-374
cancel ==
    /\ cancelled' = TRUE
    /\ tcancel' = IF currentTask # 0 THEN [tcancel EXCEPT ![currentTask] = TRUE] ELSE tcancel
    /\ obs' = IF appRunning /\ nStarted > 0 /\ Live(nStarted)
              THEN [obs EXCEPT !.cancelAt = IF @ = "none" THEN pc[nStarted] ELSE @,
                               !.cancelIn = @ \cup {status}]
              ELSE obs

\* Arguments of a direct call of start(): the defaults of lines 131-133
\* with either value of force_whisper
ApiArgs == {a \in StartArgs : a.output_format = "text" /\ ~a.with_timestamps}

\* start() called by any caller at any time
Start ==
    /\ \E a \in ApiArgs : start(a, FALSE)
    /\ UNCHANGED <<currentTask, tcancel, tinfo, appRunning, fn>>

\* cancel() called by any caller at any time
Cancel ==
    /\ cancel
    /\ UNCHANGED <<status, currentTask, tinfo, pc, args, loc, nStarted, appRunning, fs, fn>>

\* app.py lines 292-335: the one button cancels while _is_running, else
\* sets _is_running and starts a task
OnStart ==
    IF appRunning
    THEN /\ cancel
         /\ UNCHANGED <<status, currentTask, tinfo, pc, args, loc, nStarted, appRunning, fs, fn>>
    ELSE /\ appRunning' = TRUE
         /\ \E a \in StartArgs : start(a, TRUE)
         /\ UNCHANGED <<currentTask, tcancel, tinfo, fn>>

WorkerStep ==
    \E w \in Workers :
        \/ RunInit(w)
        \/ GetInfoReturn(w)
        \/ CreateFolder(w)
        \/ CheckSubtitle(w)
        \/ DownloadSubtitleBegin(w)
        \/ DownloadSubtitleReturn(w)
        \/ LoadReturn(w)
        \/ SaveSubtitle(w)
        \/ DownloadAudioBegin(w)
        \/ DownloadAudioHook(w)
        \/ DownloadAudioReturn(w)
        \/ TranscribeReturn(w)
        \/ SaveTranscript(w)

\* The orchestrator used as a library: start() and cancel() at any time.
Next == Start \/ Cancel \/ WorkerStep

Spec == Init /\ [][Next]_vars

\* The orchestrator driven by the GUI of app.py.
\* The progress callbacks a transcription makes inside its segment loop
\* change nothing but what the installed callbacks are shown, so they are
\* followed where callbacks are installed.
Transcribing == \E w \in Workers : TranscribeCallback(w)

NextRun == OnStart \/ WorkerStep \/ Transcribing

SpecRun == Init /\ [][NextRun]_vars

\* =====================================================================
\* Properties
\* =====================================================================
SubtitleStatuses == {CHECKING_SUBTITLE, DOWNLOADING_SUBTITLE, PARSING_SUBTITLE}

CancelledCompletion == [success |-> FALSE, output_path |-> NoPath, error |-> MsgCancelled]

\* a cancel() call arrived while the current run was started and not yet terminal
CancelRequested == obs.cancelAt # "none"

\* C1: at most one worker thread executes _run_task at any time; a start()
\* issued before the earlier task is terminal launches no worker, also while
\* the earlier task's status is still Idle.
C1_AtMostOneWorker == Cardinality({w \in Workers : Live(w)}) <= 1

\* C2: after a cancel() that arrives while the task is running the task
\* never reaches Completed and no artifact file is written after the call,
\* at whichever point of the pipeline the call arrives.
C2_CancelNeverCompletes ==
    CancelRequested => status # COMPLETED /\ ~obs.writeAfterCancel

C4_CancelNeverError == CancelRequested => status # ERROR

\* C5: a task started with force_whisper=True never has status
\* CheckingSubtitle, DownloadingSubtitle or ParsingSubtitle and never calls
\* download_subtitle or SubtitleManager.load.
C5_ForcedSkipsSubtitle ==
    obs.force =>
        /\ status \notin SubtitleStatuses
        /\ obs.entered \cap SubtitleStatuses = {}
        /\ obs.calls \cap {"download_subtitle", "load", "save"} = {}

C5_Witness ==
    /\ obs.force
    /\ status = COMPLETED
    /\ obs.entered = {IDLE, FETCHING_INFO, DOWNLOADING_AUDIO, TRANSCRIBING, COMPLETED}
    /\ obs.calls = {"get_video_info", "download_audio", "transcribe"}

\* C6: when get_video_info returns None and cancel() was not called, the
\* status is Error, the completion notification is (False, None, message),
\* nothing is notified or called after it, and no output folder exists.
C6_InfoFailure ==
    obs.fail = "get_video_info" /\ ~cancelled =>
        /\ status = ERROR
        /\ obs.completions = <<[success |-> FALSE, output_path |-> NoPath, error |-> MsgNoInfo]>>
        /\ ~obs.afterDone
        /\ obs.entered = {IDLE, FETCHING_INFO, ERROR}
        /\ obs.calls = {"get_video_info"}
        /\ ~fs.folder
        /\ ~fs.exists
        /\ pc[nStarted] = "done"

C6_Witness ==
    /\ obs.fail = "get_video_info"
    /\ ~cancelled
    /\ status = ERROR
    /\ Len(obs.completions) = 1

\* the edges of the status graph; the edge FetchingInfo -> DownloadingAudio
\* is open to a forced run only
Edges(force) ==
    {<<IDLE, FETCHING_INFO>>,
     <<FETCHING_INFO, CHECKING_SUBTITLE>>,
     <<CHECKING_SUBTITLE, DOWNLOADING_SUBTITLE>>,
     <<DOWNLOADING_SUBTITLE, PARSING_SUBTITLE>>,
     <<PARSING_SUBTITLE, COMPLETED>>,
     <<CHECKING_SUBTITLE, DOWNLOADING_AUDIO>>,
     <<DOWNLOADING_SUBTITLE, DOWNLOADING_AUDIO>>,
     <<PARSING_SUBTITLE, DOWNLOADING_AUDIO>>,
     <<DOWNLOADING_AUDIO, TRANSCRIBING>>,
     <<TRANSCRIBING, COMPLETED>>}
    \cup {<<FETCHING_INFO, DOWNLOADING_AUDIO>> : f \in {force} \ {FALSE}}
    \cup ((TaskStatus \ Terminal) \X {CANCELLED, ERROR})

AcceptedStart == nStarted' = nStarted + 1

\* C7: within a run the status follows only the edges of the status graph,
\* no status is entered twice, and a terminal status changes only at the
\* next accepted start().
C7_StatusEdges ==
    [][ /\ status' # status =>
            IF AcceptedStart THEN status \in Terminal /\ status' = IDLE
            ELSE <<status, status'>> \in Edges(obs.force)
        /\ obs'.nSet = Cardinality(obs'.entered)
        /\ status' \in obs'.entered \/ nStarted' = 0 ]_vars

C7_Witness ==
    /\ status = COMPLETED
    /\ ~obs.force
    /\ obs.entered = TaskStatus \ {CANCELLED, ERROR}
    /\ obs.nSet = 8

\* C8: when the transcription path is not forced and cancel() is not
\* called, each recoverable gap (no subtitle track, download_subtitle
\* failed, load returned False, save returned False) makes DownloadingAudio
\* the next status, never Error, and fires no completion notification.
C8_GapFallsThrough ==
    obs.gap # "none" /\ ~cancelled =>
        /\ ~obs.force
        /\ status = DOWNLOADING_AUDIO
        /\ obs.completions = <<>>
        /\ ERROR \notin obs.entered
        /\ pc[nStarted] = "dl_audio"

C8_Witness ==
    /\ obs.gap = "download_failed"
    /\ ~cancelled
    /\ status = DOWNLOADING_AUDIO
    /\ DOWNLOADING_SUBTITLE \in obs.entered

\* C9: a task is Completed through the subtitle path only if the transcript
\* made from the parsed subtitle is non-trivial; whatever the threshold, it
\* is at least not empty.
C9_SubtitleTranscriptNonTrivial ==
    status = COMPLETED /\ obs.via = "subtitle" => Len(fs.content) > 0

FilePresent == fs.exists \/ fs.truncated

\* C11: the artifact file is in the task folder if and only if the run's
\* terminal state is Completed, it is written at most once per run, and the
\* completion notification with success=True carries its path; a run that
\* ends in Error or Cancelled leaves no artifact file in the task folder.
C11_ArtifactIffCompleted ==
    /\ fs.writes <= 1
    /\ status \in Terminal =>
        /\ FilePresent <=> status = COMPLETED
        /\ status = COMPLETED =>
             obs.completions = <<[success |-> TRUE, output_path |-> OutputPath, error |-> NoError]>>

\* =====================================================================
\* Subtitle track selection
\* =====================================================================
\* None where a language is expected: `if language:` and
\* `if not selected_lang:` take None and the empty string alike
NoLang == ""

\* "fr" and "de" are in no priority list
Langs == {"en", "zh-Hans", "fr", "de"}

\* longest track list of a catalog
MaxTracks == 2

\* the keys of info['subtitles'] and info['automatic_captions'], in catalog order
Catalogs == {t \in UNION {[1..n -> Langs] : n \in 0..MaxTracks} : \A i, j \in 1..Len(t) : i # j => t[i] # t[j]}

Platforms == {"bilibili", "youtube", "unknown"}

\* x in list
In(x, list) == \E i \in 1..Len(list) : list[i] = x

\* download_manager.py lines 376-383
get_language_priority(platform) ==
    IF platform = "bilibili" THEN <<"zh-Hans", "zh-Hant", "zh", "en">>
    ELSE IF platform = "youtube" THEN <<"en", "zh-Hans", "zh", "zh-Hant">>
    ELSE <<"zh-Hans", "en", "zh">>

\* subtitle_downloader.py lines 15-19 and 121-125
PLATFORM_LANGUAGE_PRIORITY(platform) ==
    IF platform = "bilibili" THEN <<"zh-Hans", "zh-Hant", "zh", "en">>
    ELSE IF platform = "youtube" THEN <<"en", "zh-Hans", "zh">>
    ELSE <<"zh-Hans", "en">>

\* for lang in lang_priority: if lang in subs: ... break
RECURSIVE FirstPresent(_, _)
FirstPresent(lang_priority, subs) ==
    IF lang_priority = <<>> THEN NoLang
    ELSE IF In(lang_priority[1], subs) THEN lang_priority[1]
    ELSE FirstPresent(Tail(lang_priority), subs)

\* Faulty variant of the tier rule: without a priority language the last
\* track of the tier is taken.
TierChoice_Last(lang_priority, subs) ==
    IF FirstPresent(lang_priority, subs) # NoLang THEN FirstPresent(lang_priority, subs)
    ELSE subs[Len(subs)]

\* download_manager.py lines 303-309 and 313-321; subtitle_downloader.py
\* lines 130-136 and 141-147: within a non-empty tier, the first priority
\* language present, else the tier's first track
TierChoice(lang_priority, subs) ==
    IF FirstPresent(lang_priority, subs) # NoLang THEN FirstPresent(lang_priority, subs)
    ELSE subs[1]

\* nothing selected: selected_lang = None, is_auto = False (lines 283-284)
NoSelection == [lang |-> NoLang, is_auto |-> FALSE]

\* download_manager.py lines 274-325: (selected_lang, is_auto)
SelectedLang(manual_subs, auto_subs, language, prefer_auto, lang_priority) ==
    IF manual_subs = <<>> /\ auto_subs = <<>> THEN NoSelection
    ELSE IF language # NoLang
    THEN IF In(language, manual_subs) THEN [lang |-> language, is_auto |-> FALSE]
         ELSE IF In(language, auto_subs) THEN [lang |-> language, is_auto |-> TRUE]
         ELSE NoSelection
    ELSE IF ~prefer_auto /\ manual_subs # <<>>
    THEN [lang |-> TierChoice(lang_priority, manual_subs), is_auto |-> FALSE]
    ELSE IF auto_subs # <<>>
    THEN [lang |-> TierChoice(lang_priority, auto_subs), is_auto |-> TRUE]
    ELSE NoSelection

\* language_priority=None
DefaultPriority == <<"None">>

\* subtitle_downloader.py lines 102-154
select_best_subtitle(manual_subs, auto_subs, platform, language_priority) ==
    LET has_subtitles == manual_subs # <<>> \/ auto_subs # <<>>
        priority == IF language_priority = DefaultPriority
                    THEN PLATFORM_LANGUAGE_PRIORITY(platform) ELSE language_priority
    IN IF ~has_subtitles THEN NoSelection
       ELSE IF manual_subs # <<>> THEN [lang |-> TierChoice(priority, manual_subs), is_auto |-> FALSE]
       ELSE IF auto_subs # <<>> THEN [lang |-> TierChoice(priority, auto_subs), is_auto |-> TRUE]
       ELSE NoSelection

\* priority lists a caller of select_best_subtitle passes
PriorityArgs == {DefaultPriority, <<>>, <<"fr", "en">>}

SelectCalls ==
    [op : {"download_subtitle"}, manual_subs : Catalogs, auto_subs : Catalogs,
     language : Langs \cup {NoLang}, prefer_auto : BOOLEAN, platform : Platforms,
     priority : {<<>>}, done : {FALSE}, out : {NoSelection}]
    \cup
    [op : {"select_best_subtitle"}, manual_subs : Catalogs, auto_subs : Catalogs,
     language : {NoLang}, prefer_auto : {FALSE}, platform : Platforms,
     priority : PriorityArgs, done : {FALSE}, out : {NoSelection}]

InitSelect ==
    /\ InitTask
    /\ fn \in SelectCalls

\* the selection of DownloadTask.download_subtitle is made
DownloadSubtitleSelect ==
    /\ fn.op = "download_subtitle"
    /\ ~fn.done
    /\ fn' = [fn EXCEPT !.done = TRUE,
                        !.priority = get_language_priority(fn.platform),
                        !.out = SelectedLang(fn.manual_subs, fn.auto_subs, fn.language, fn.prefer_auto,
                                             get_language_priority(fn.platform))]
    /\ UNCHANGED taskVars

\* select_best_subtitle returns
SelectBestSubtitle ==
    /\ fn.op = "select_best_subtitle"
    /\ ~fn.done
    /\ fn' = [fn EXCEPT !.done = TRUE,
                        !.priority = IF fn.priority = DefaultPriority
                                     THEN PLATFORM_LANGUAGE_PRIORITY(fn.platform) ELSE fn.priority,
                        !.out = select_best_subtitle(fn.manual_subs, fn.auto_subs, fn.platform, fn.priority)]
    /\ UNCHANGED taskVars

NextSelect == DownloadSubtitleSelect \/ SelectBestSubtitle

SpecSelect == InitSelect /\ [][NextSelect]_vars

\* ------------------------------------------------- selection properties
Selected == fn.op \in {"download_subtitle", "select_best_subtitle"} /\ fn.done

CatalogEmpty == fn.manual_subs = <<>> /\ fn.auto_subs = <<>>

\* the first language of the priority list that is in the tier, and the
\* tier's first language when there is none
Preferred(lang_priority, tier) ==
    LET hits == {i \in 1..Len(lang_priority) : In(lang_priority[i], tier)}
    IN IF hits # {} THEN lang_priority[CHOOSE i \in hits : \A j \in hits : i <= j]
       ELSE tier[1]

\* the automatic rule: the manual tier before the automatic tier
AutomaticRule(manual_subs, auto_subs, lang_priority) ==
    IF manual_subs # <<>> THEN [lang |-> Preferred(lang_priority, manual_subs), is_auto |-> FALSE]
    ELSE IF auto_subs # <<>> THEN [lang |-> Preferred(lang_priority, auto_subs), is_auto |-> TRUE]
    ELSE NoSelection

\* C12: for every catalog and every combination of arguments the selection
\* never names a language absent from both lists, and nothing is selected
\* only when both lists are empty.
C12_SelectionSound ==
    Selected =>
        /\ fn.out # NoSelection => In(fn.out.lang, fn.manual_subs) \/ In(fn.out.lang, fn.auto_subs)
        /\ fn.out = NoSelection => CatalogEmpty

\* C13: with a pinned language L, download_subtitle selects (L, manual) when
\* L is a manual track, else (L, automatic) when L is an automatic track,
\* else what the automatic rule selects, which is a track whenever the
\* catalog is not empty.
C13_PinnedLanguage ==
    Selected /\ fn.op = "download_subtitle" /\ fn.language # NoLang =>
        IF In(fn.language, fn.manual_subs) THEN fn.out = [lang |-> fn.language, is_auto |-> FALSE]
        ELSE IF In(fn.language, fn.auto_subs) THEN fn.out = [lang |-> fn.language, is_auto |-> TRUE]
        ELSE /\ fn.out = AutomaticRule(fn.manual_subs, fn.auto_subs, fn.priority)
             /\ ~CatalogEmpty => fn.out # NoSelection

\* C14 as stated: without a pinned language an automatic track is returned
\* only if the manual list is empty, and the language is the first priority
\* language present in the chosen tier, else the tier's first.
C14_Unpinned_AsStated ==
    Selected /\ fn.language = NoLang =>
        /\ fn.out.is_auto => fn.manual_subs = <<>>
        /\ fn.out # NoSelection =>
             LET tier == IF fn.out.is_auto THEN fn.auto_subs ELSE fn.manual_subs
             IN tier # <<>> /\ fn.out.lang = Preferred(fn.priority, tier)

\* C14 amended: without a pinned language an automatic track is returned
\* only if the manual list is empty or prefer_auto is set; a returned track
\* is the first priority language present in its tier, else that tier's
\* first; with prefer_auto unset the result is that of the automatic rule.
C14_Unpinned ==
    Selected /\ fn.language = NoLang =>
        /\ fn.out.is_auto => fn.manual_subs = <<>> \/ fn.prefer_auto
        /\ fn.out # NoSelection =>
             LET tier == IF fn.out.is_auto THEN fn.auto_subs ELSE fn.manual_subs
             IN tier # <<>> /\ fn.out.lang = Preferred(fn.priority, tier)
        /\ ~fn.prefer_auto => fn.out = AutomaticRule(fn.manual_subs, fn.auto_subs, fn.priority)

C14_Witness ==
    /\ Selected
    /\ fn.op = "download_subtitle"
    /\ fn.language = NoLang
    /\ fn.prefer_auto
    /\ fn.manual_subs = <<"en">>
    /\ fn.auto_subs = <<"fr", "de">>
    /\ fn.out = [lang |-> "fr", is_auto |-> TRUE]

\* =====================================================================
\* Text normalization on its own
\* =====================================================================
\* subtitle_parser.py lines 284-360: the same steps as to_text without
\* timestamps, with the gap of 5.0 seconds written in line 344
clean_subtitle_text(segments) ==
    IF segments = <<>> THEN <<>>
    ELSE Strip(CollapseNewlines(CollapseSpaces(JoinLines(
             ResultLines(DedupedSegments(segments), 0, FALSE, FALSE, 5000)))))

\* text.split('\n')
RECURSIVE SplitLines(_)
SplitLines(s) ==
    LET j == IndexFrom(s, NL, 1)
    IN IF j = 0 THEN <<s>> ELSE <<SubSeq(s, 1, j - 1)>> \o SplitLines(Drop(s, j))

\* cue texts as the parsers deliver them (stripped, non-empty, one line)
EscapedTag == <<"&", "l", "t", ";", "b", "&", "g", "t", ";", "H", "i">>
TwoLabels == <<"[", "A", "]", ":", "[", "B", "]", ":", "H", "i">>
WideGap == <<"a", SP, SP, "b">>
NarrowGap == <<"a", SP, "b">>
CueTexts == {Hello, TagOnly, EscapedTag, TwoLabels, WideGap, NarrowGap}

\* most cues of a segment sequence
MaxCues == 2

\* start and end of the cues that follow the first one: right after the cue
\* before, or more than the paragraph gap later
RECURSIVE Timed(_, _)
Timed(texts, from) ==
    IF texts = <<>> THEN {<<>>}
    ELSE {<<[start |-> from + d, end |-> from + d + 2000, text |-> texts[1]]>> \o rest :
            d \in {0, 7000}, rest \in Timed(Tail(texts), from + 2000)}

SegmentInputs ==
    UNION {Timed(texts, 0) : texts \in UNION {[1..n -> CueTexts] : n \in 0..MaxCues}}

\* the non-blank lines of a normalized text, as the texts of the segments
\* that survived cleaning and deduplication, with their timing
RECURSIVE Retimed(_, _)
Retimed(lines, segs) ==
    IF lines = <<>> \/ segs = <<>> THEN <<>>
    ELSE IF lines[1] = <<>> THEN Retimed(Tail(lines), segs)
    ELSE <<[start |-> segs[1].start, end |-> segs[1].end, text |-> lines[1]]>>
         \o Retimed(Tail(lines), Tail(segs))

Normalize(op, segments) ==
    IF op = "to_text" THEN to_text(segments, FALSE, paragraph_gap_default)
    ELSE clean_subtitle_text(segments)

InitText ==
    /\ InitTask
    /\ fn \in [op : {"to_text", "clean_subtitle_text"}, segments : SegmentInputs,
               passes : {0}, out : {<<>>}, again : {<<>>}]

\* SubtitleManager.to_text(with_timestamps=False) returns
ToText ==
    /\ fn.op = "to_text"
    /\ fn.passes = 0
    /\ fn' = [fn EXCEPT !.passes = 1, !.out = to_text(fn.segments, FALSE, paragraph_gap_default)]
    /\ UNCHANGED taskVars

\* clean_subtitle_text returns
CleanSubtitleText ==
    /\ fn.op = "clean_subtitle_text"
    /\ fn.passes = 0
    /\ fn' = [fn EXCEPT !.passes = 1, !.out = clean_subtitle_text(fn.segments)]
    /\ UNCHANGED taskVars

\* the same function is applied to the lines of its own output
NormalizeAgain ==
    /\ fn.op \in {"to_text", "clean_subtitle_text"}
    /\ fn.passes = 1
    /\ fn' = [fn EXCEPT !.passes = 2,
                        !.again = Normalize(fn.op, Retimed(SplitLines(fn.out), DedupedSegments(fn.segments)))]
    /\ UNCHANGED taskVars

NextText == ToText \/ CleanSubtitleText \/ NormalizeAgain

SpecText == InitText /\ [][NextText]_vars

Normalized == fn.op \in {"to_text", "clean_subtitle_text"} /\ fn.passes >= 1

\* the non-blank lines of a text
RECURSIVE NonBlank(_)
NonBlank(lines) ==
    IF lines = <<>> THEN <<>>
    ELSE (IF lines[1] = <<>> THEN <<>> ELSE <<lines[1]>>) \o NonBlank(Tail(lines))

\* C15: normalization is idempotent: normalizing the lines of normalize(S),
\* with the timing of the surviving segments, yields normalize(S) again.
C15_NormalizeIdempotent ==
    fn.op \in {"to_text", "clean_subtitle_text"} /\ fn.passes = 2 => fn.again = fn.out

\* C16: in the final plain-text output no two segments adjacent in the
\* output have the same text: no two consecutive non-blank lines are equal.
C16_NoAdjacentDuplicates ==
    Normalized =>
        LET lines == NonBlank(SplitLines(fn.out))
        IN \A i \in 1..(Len(lines) - 1) : lines[i] # lines[i + 1]

\* =====================================================================
\* Subtitle parsing on its own
\* =====================================================================
DigitChars == {"0", "1", "2", "3", "4", "5", "6", "7", "8", "9"}

DigitValue(c) == CHOOSE d \in 0..9 : Digit(d) = c

AllDigits(s) == \A i \in 1..Len(s) : s[i] \in DigitChars

\* s.find(c) + 1
Find(s, c) ==
    LET at == {j \in 1..Len(s) : s[j] = c}
    IN IF at = {} THEN 0 ELSE CHOOSE j \in at : \A k \in at : j <= k

\* s.split(sep) for a one-character separator
RECURSIVE Split(_, _)
Split(s, sep) ==
    LET j == Find(s, sep)
    IN IF j = 0 THEN <<s>> ELSE <<SubSeq(s, 1, j - 1)>> \o Split(Drop(s, j), sep)

RECURSIVE StripZeros(_)
StripZeros(s) == IF Len(s) > 1 /\ s[1] = "0" THEN StripZeros(Tail(s)) ELSE s

\* a decimal integer above the largest float has more than 309 digits; the
\* integers of the model have fewer than 4 digits or more than 309
MaxFloatDigits == 309

TooLargeForFloat(digits) == Len(StripZeros(digits)) > MaxFloatDigits

RECURSIVE NatOf(_)
NatOf(digits) == IF digits = <<>> THEN 0 ELSE NatOf(SubSeq(digits, 1, Len(digits) - 1)) * 10 + DigitValue(digits[Len(digits)])

\* The outcomes of int(text) and float(text) for texts made of digits, '.',
\* letters, and the words nan and inf: "num" with the value (an integer for
\* int, a float for float), "huge" for an integer too large for a float,
\* "inf", "nan", or "ValueError".
Outcome(kind, n) == [kind |-> kind, n |-> n]

Zero == Outcome("num", Float(<<>>, 0))

int(text) ==
    IF text = <<>> \/ ~AllDigits(text) THEN Outcome("ValueError", 0)
    ELSE IF TooLargeForFloat(text) THEN Outcome("huge", 0)
    ELSE Outcome("num", NatOf(StripZeros(text)))

\* the digits after the point, as thousandths; the texts of the model have
\* at most three
Millis(frac) == NatOf(SubSeq(frac \o <<"0", "0", "0">>, 1, 3))

float(text) ==
    LET parts == Split(text, ".")
        whole == parts[1]
        frac == IF Len(parts) = 2 THEN parts[2] ELSE <<>>
    IN IF text = <<"n", "a", "n">> THEN Outcome("nan", 0)
       ELSE IF text = <<"i", "n", "f">> THEN Outcome("inf", 0)
       ELSE IF Len(parts) > 2 \/ ~AllDigits(whole) \/ ~AllDigits(frac) \/ (whole = <<>> /\ frac = <<>>)
       THEN Outcome("ValueError", 0)
       ELSE IF TooLargeForFloat(whole) THEN Outcome("inf", 0)
       ELSE Outcome("num", FloatOfRatio((IF whole = <<>> THEN 0 ELSE NatOf(StripZeros(whole))) * 1000 + Millis(frac), 1000))

\* int + float, the int scaled by `scale` seconds: OverflowError when the
\* int cannot be converted to a float
AddSeconds(i, scale, f) ==
    IF i.kind = "huge" THEN (IF f.kind = "num" \/ f.kind = "inf" \/ f.kind = "nan" THEN Outcome("OverflowError", 0) ELSE f)
    ELSE IF f.kind = "num" THEN Outcome("num", FloatAdd(FloatOfInt(i.n * scale), f.n))
    ELSE f

\* subtitle_manager.py lines 256-278 (subtitle_parser.py lines 246-281):
\* "num" with the seconds, "inf", "nan", or "OverflowError" when the call
\* raises; ValueError is caught and gives 0.0
parse_timestamp(timestamp_str) ==
    LET parts == Split(Strip(timestamp_str), ":")
        caught(r) == IF r.kind = "ValueError" THEN Zero ELSE r
    IN IF Len(parts) = 3
       THEN LET hours == int(parts[1])
                minutes == int(parts[2])
                seconds == float(parts[3])
            IN IF hours.kind = "ValueError" \/ minutes.kind = "ValueError" \/ seconds.kind = "ValueError"
               THEN Zero
               ELSE IF hours.kind = "huge" \/ minutes.kind = "huge"
               THEN Outcome("OverflowError", 0)
               ELSE AddSeconds(Outcome("num", hours.n * 60 + minutes.n), 60, seconds)
       ELSE IF Len(parts) = 2
       THEN LET minutes == int(parts[1])
                seconds == float(parts[2])
            IN IF minutes.kind = "ValueError" \/ seconds.kind = "ValueError"
               THEN Zero
               ELSE AddSeconds(minutes, 60, seconds)
       ELSE caught(float(parts[1]))

Chars(str) == [i \in 1..Len(str) |-> SubSeq(str, i, i)]

Arrow == Chars("-->")

Contains(s, pat) == \E i \in 1..Len(s) : StartsWithAt(s, i, pat)

\* the last index of the longest run of characters of a class that starts
\* at i; i - 1 when s[i] is not of the class
RunEnd(s, i, class) ==
    CHOOSE j \in (i - 1)..Len(s) : /\ \A k \in i..j : s[k] \in class
                                   /\ j < Len(s) => s[j + 1] \notin class

WhiteSpace == {SP, NL}

\* re.match(r'([C]+)\s*-->\s*([C]+)', line) for a character class C that
\* holds neither white space nor '-': <<>> when there is no match, else
\* <<group(1), group(2)>>
MatchCue(line, class) ==
    LET a == RunEnd(line, 1, class)
        b == RunEnd(line, a + 1, WhiteSpace)
        c == RunEnd(line, b + 4, WhiteSpace)
        d == RunEnd(line, c + 1, class)
    IN IF a >= 1 /\ StartsWithAt(line, b + 1, Arrow) /\ d >= c + 1
       THEN <<SubSeq(line, 1, a), SubSeq(line, c + 1, d)>>
       ELSE <<>>

VttClass == DigitChars \cup {":", "."}

SrtClass == DigitChars \cup {":", ","}

\* ' '.join(lines)
RECURSIVE JoinSpace(_)
JoinSpace(lines) ==
    IF lines = <<>> THEN <<>>
    ELSE IF Len(lines) = 1 THEN lines[1]
    ELSE lines[1] \o <<SP>> \o JoinSpace(Tail(lines))

\* what a parser gives back: it raised, or a list of segments whose start
\* and end are outcomes of parse_timestamp
Parsed(segments) == [raised |-> FALSE, segments |-> segments]

ParseRaised == [raised |-> TRUE, segments |-> <<>>]

Cue(start_str, end_str, text) ==
    LET from == parse_timestamp(start_str)
        to == parse_timestamp(end_str)
    IN IF from.kind = "OverflowError" \/ to.kind = "OverflowError"
       THEN ParseRaised
       ELSE Parsed(<<[start |-> from, end |-> to, text |-> text]>>)

\* a cue followed by the rest of the file
Then(cue, rest) ==
    IF cue.raised \/ rest.raised THEN ParseRaised ELSE Parsed(cue.segments \o rest.segments)

Header == Chars("WEBVTT")

Note == Chars("NOTE")

\* subtitle_manager.py lines 147-186, from line i + 1 of the file on
RECURSIVE VttFrom(_, _)
VttFrom(lines, i) ==
    IF i > Len(lines) THEN Parsed(<<>>)
    ELSE LET line == Strip(lines[i])
             m == MatchCue(line, VttClass)
             IsText(k) == Strip(lines[k]) # <<>> /\ ~Contains(lines[k], Arrow)
             \* the first line after the cue's text lines
             j == CHOOSE k \in (i + 1)..(Len(lines) + 1) :
                      /\ \A t \in (i + 1)..(k - 1) : IsText(t)
                      /\ k <= Len(lines) => ~IsText(k)
             text_lines == [t \in 1..(j - i - 1) |-> Strip(lines[i + t])]
         IN IF line = <<>> \/ StartsWithAt(line, 1, Header) \/ StartsWithAt(line, 1, Note)
            THEN VttFrom(lines, i + 1)
            ELSE IF Contains(line, Arrow) /\ m # <<>>
            THEN IF text_lines # <<>>
                 THEN Then(Cue(Strip(m[1]), Strip(m[2]), JoinSpace(text_lines)), VttFrom(lines, j))
                 ELSE VttFrom(lines, j)
            ELSE VttFrom(lines, i + 1)

parse_vtt(content) == VttFrom(Split(content, NL), 1)

\* re.split(r'\n\s*\n', content): a separator starts at a newline and runs
\* to the last newline of the white space that follows it
RECURSIVE SplitBlocks(_)
SplitBlocks(content) ==
    LET SepEnd(i) == LET r == RunEnd(content, i + 1, WhiteSpace)
                         nl == {j \in (i + 1)..r : content[j] = NL}
                     IN IF nl = {} THEN 0 ELSE CHOOSE j \in nl : \A k \in nl : k <= j
        seps == {i \in 1..Len(content) : content[i] = NL /\ SepEnd(i) # 0}
        sep == CHOOSE i \in seps : \A k \in seps : i <= k
    IN IF seps = {} THEN <<content>>
       ELSE <<SubSeq(content, 1, sep - 1)>> \o SplitBlocks(Drop(content, SepEnd(sep)))

\* s.replace(',', '.')
Dots(s) == [i \in 1..Len(s) |-> IF s[i] = "," THEN "." ELSE s[i]]

RECURSIVE NonEmptyStripped(_)
NonEmptyStripped(lines) ==
    IF lines = <<>> THEN <<>>
    ELSE (IF Strip(lines[1]) # <<>> THEN <<Strip(lines[1])>> ELSE <<>>) \o NonEmptyStripped(Tail(lines))

\* subtitle_manager.py lines 197-228: one block of a SubRip file
SrtBlock(block) ==
    LET lines == Split(Strip(block), NL)
        at == {i \in 1..Len(lines) : Contains(lines[i], Arrow)}
        i == CHOOSE k \in at : \A t \in at : k <= t
        timestamp_line == lines[i]
        text_lines == SubSeq(lines, i + 1, Len(lines))
        m == MatchCue(timestamp_line, SrtClass)
        text == JoinSpace(NonEmptyStripped(text_lines))
    IN IF Len(lines) < 2 \/ at = {} THEN Parsed(<<>>)
       ELSE IF text_lines = <<>> \/ m = <<>> \/ text = <<>> THEN Parsed(<<>>)
       ELSE Cue(Dots(Strip(m[1])), Dots(Strip(m[2])), text)

RECURSIVE SrtBlocks(_)
SrtBlocks(blocks) ==
    IF blocks = <<>> THEN Parsed(<<>>) ELSE Then(SrtBlock(blocks[1]), SrtBlocks(Tail(blocks)))

parse_srt(content) == SrtBlocks(SplitBlocks(content))

RECURSIVE GenericLines(_)
GenericLines(lines) ==
    IF lines = <<>> THEN <<>>
    ELSE LET line == Strip(lines[1])
             skip == \/ line = <<>>
                     \/ Contains(line, Arrow)
                     \/ AllDigits(line)
                     \/ StartsWithAt(line, 1, Header)
                     \/ StartsWithAt(line, 1, Note)
         IN (IF ~skip /\ Len(line) > 2 THEN <<[start |-> Zero, end |-> Zero, text |-> line]>> ELSE <<>>)
            \o GenericLines(Tail(lines))

parse_generic(content) == Parsed(GenericLines(Split(content, NL)))

\* subtitle_manager.py lines 120-145; no content leaves the segment list
\* empty
detect_and_parse(text) ==
    LET content == Strip(text)
        line == Split(content, NL)[1]
        digits == RunEnd(line, 1, DigitChars)
    IN IF text = <<>> THEN Parsed(<<>>)
       ELSE IF StartsWithAt(content, 1, Header) THEN parse_vtt(content)
       ELSE IF digits >= 1 /\ RunEnd(line, digits + 1, WhiteSpace) = Len(line) THEN parse_srt(content)
       ELSE parse_generic(content)

\* ------------------------------------------------------- inputs
\* 400 nines: an integer that no float holds
HugeDigits == [i \in 1..400 |-> "9"]

\* The timestamp line of a cue, with the decimal separator p of its format:
\* well formed, ending before it starts, with letters in a component, with
\* a fraction in the hours, with four components, with hours no float holds.
CueKinds == {"good", "reversed", "letters", "fraction", "four", "huge"}

TimestampLine(kind, p) ==
    IF kind = "good" THEN Chars("00:00:01") \o <<p>> \o Chars("000 --> 00:00:02") \o <<p>> \o Chars("500")
    ELSE IF kind = "reversed" THEN Chars("00:00:05") \o <<p>> \o Chars("000 --> 00:00:02") \o <<p>> \o Chars("000")
    ELSE IF kind = "letters" THEN Chars("00:xx:05") \o <<p>> \o Chars("000 --> 00:00:07") \o <<p>> \o Chars("000")
    ELSE IF kind = "fraction" THEN <<"1", p>> \o Chars("5:00:03 --> 00:00:07") \o <<p>> \o Chars("000")
    ELSE IF kind = "four" THEN Chars("1:2:3:4 --> 00:00:07") \o <<p>> \o Chars("000")
    ELSE HugeDigits \o Chars(":00:00 --> 00:00:02") \o <<p>> \o Chars("000")

First == Chars("First")

Second == Chars("Second")

VttFile(kinds) ==
    Header \o <<NL, NL>> \o TimestampLine(kinds[1], ".") \o <<NL>> \o First \o <<NL, NL>>
           \o TimestampLine(kinds[2], ".") \o <<NL>> \o Second \o <<NL>>

SrtFile(kinds) ==
    <<"1", NL>> \o TimestampLine(kinds[1], ",") \o <<NL>> \o First \o <<NL, NL>>
                \o <<"2", NL>> \o TimestampLine(kinds[2], ",") \o <<NL>> \o Second \o <<NL>>

\* files that are neither WebVTT nor SubRip, and files without a cue
OtherFiles == {
    <<>>,
    Chars("WEBVTT"),
    Chars("Hello there") \o <<NL>> \o Chars("12") \o <<NL>> \o Chars("ab") \o <<NL>> \o Chars("NOTE x") \o <<NL>> \o Chars("  spaced  "),
    Chars("7") \o <<NL>> \o Chars("00:00:01,000 --> 00:00:02,000"),
    Header \o <<NL>> \o Chars("00:00:01.000 --> 00:00:02.000") \o <<NL, NL>> \o Chars("late text") }

ParseCalls ==
    {[op |-> "detect_and_parse", text |-> VttFile(kinds), format |-> "vtt", cues |-> kinds, done |-> FALSE, out |-> Parsed(<<>>)] :
        kinds \in CueKinds \X CueKinds}
    \cup {[op |-> "detect_and_parse", text |-> SrtFile(kinds), format |-> "srt", cues |-> kinds, done |-> FALSE, out |-> Parsed(<<>>)] :
        kinds \in CueKinds \X CueKinds}
    \cup {[op |-> "detect_and_parse", text |-> file, format |-> "other", cues |-> <<>>, done |-> FALSE, out |-> Parsed(<<>>)] :
        file \in OtherFiles}

\* Timestamp texts: every combination of the listed hours, minutes, seconds
\* and milliseconds in the three accepted forms, and malformed ones.
HourTexts == {"00", "01", "100"}

MinuteTexts == {"00", "59"}

SecondTexts == {"00", "01", "04", "59"}

MilliTexts == {"000", "001", "350", "500", "999"}

ValidTimestamps ==
    {Chars(h) \o <<":">> \o Chars(m) \o <<":">> \o Chars(s) \o <<".">> \o Chars(f) :
        h \in HourTexts, m \in MinuteTexts, s \in SecondTexts, f \in MilliTexts}
    \cup {Chars(m) \o <<":">> \o Chars(s) \o <<".">> \o Chars(f) : m \in MinuteTexts, s \in SecondTexts, f \in MilliTexts}
    \cup {Chars(s) \o <<".">> \o Chars(f) : s \in SecondTexts, f \in MilliTexts}

MalformedTimestamps ==
    {Chars(t) : t \in {"", "ab", "1:", ":1", "x:00:01", "00:x:01", "00:00:x", "1.5:00:03", "1.2.3", "nan", "0:nan", "inf", "1:2:3:4"}}
    \cup {HugeDigits \o Chars(":00:00.000"), HugeDigits \o Chars(":00.000"), HugeDigits}

NoTimestamp == <<>>

TimestampCalls ==
    [op : {"parse_timestamp"}, text : ValidTimestamps \cup MalformedTimestamps,
     done : {FALSE}, out : {Zero}, dot : {NoTimestamp}, comma : {NoTimestamp}]

\* the generic parser called on its own
GenericCalls ==
    {[op |-> "parse_generic", text |-> file, format |-> "other", cues |-> <<>>, done |-> FALSE, out |-> Parsed(<<>>)] :
        file \in OtherFiles}

InitParse ==
    /\ InitTask
    /\ fn \in ParseCalls \cup TimestampCalls \cup GenericCalls

\* SubtitleManager._parse_generic (and subtitle_parser.parse_generic) returns
ParseGeneric ==
    /\ fn.op = "parse_generic"
    /\ ~fn.done
    /\ fn' = [fn EXCEPT !.done = TRUE, !.out = parse_generic(fn.text)]
    /\ UNCHANGED taskVars

\* SubtitleManager._detect_and_parse returns or raises
DetectAndParse ==
    /\ fn.op = "detect_and_parse"
    /\ ~fn.done
    /\ fn' = [fn EXCEPT !.done = TRUE, !.out = detect_and_parse(fn.text)]
    /\ UNCHANGED taskVars

\* SubtitleManager._parse_timestamp returns or raises
ParseTimestamp ==
    /\ fn.op = "parse_timestamp"
    /\ ~fn.done
    /\ fn' = [fn EXCEPT !.done = TRUE, !.out = parse_timestamp(fn.text)]
    /\ UNCHANGED taskVars

\* the finite value it returned is formatted by _format_timestamp_vtt and
\* by _format_timestamp_srt
FormatParsed ==
    /\ fn.op = "parse_timestamp"
    /\ fn.done
    /\ fn.out.kind = "num"
    /\ fn.dot = NoTimestamp
    /\ fn' = [fn EXCEPT !.dot = format_timestamp(fn.out.n, "."), !.comma = format_timestamp(fn.out.n, ",")]
    /\ UNCHANGED taskVars

NextParse == DetectAndParse \/ ParseTimestamp \/ FormatParsed \/ ParseGeneric

SpecParse == InitParse /\ [][NextParse]_vars

\* a <= b for two outcomes of parse_timestamp that are not nan
Leq(a, b) ==
    IF a.kind = "num" /\ b.kind = "num" THEN FloatLeq(a.n, b.n)
    ELSE b.kind = "inf" /\ a.kind \in {"num", "inf"}

FileParsed == fn.op = "detect_and_parse" /\ fn.done

\* C17: every segment a parser returns has end >= start >= 0, also for cues
\* that end before they start and cues with malformed timestamps.
C17_SegmentOrder ==
    FileParsed /\ ~fn.out.raised =>
        \A i \in 1..Len(fn.out.segments) :
            /\ Leq(Zero, fn.out.segments[i].start)
            /\ Leq(fn.out.segments[i].start, fn.out.segments[i].end)

\* a text of one, two or three components, one of them empty or not made
\* of digits and a point
Numeric(part) == part # <<>> /\ \A i \in 1..Len(part) : part[i] \in DigitChars \cup {"."}

Malformed(text) ==
    LET parts == Split(Strip(text), ":")
    IN Len(parts) <= 3 /\ \E i \in 1..Len(parts) : ~Numeric(parts[i])

SecondCue == [start |-> Outcome("num", FloatOfInt(1)), end |-> Outcome("num", FloatOfRatio(2500, 1000)), text |-> Second]

Denoted(text) ==
    LET parts == Split(text, ":")
        n == Len(parts)
        sec == Split(parts[n], ".")
    IN [hours |-> IF n = 3 THEN NatOf(parts[1]) ELSE 0,
        minutes |-> IF n >= 2 THEN NatOf(parts[n - 1]) ELSE 0,
        seconds |-> NatOf(sec[1]),
        millis |-> NatOf(sec[2])]

\* HH:MM:SS.mmm, MM:SS.mmm or SS.mmm with minutes and seconds below 60
SyntacticallyValid(text) ==
    LET parts == Split(text, ":")
        n == Len(parts)
        sec == Split(parts[n], ".")
    IN /\ n \in 1..3
       /\ \A i \in 1..(n - 1) : parts[i] # <<>> /\ AllDigits(parts[i]) /\ Len(parts[i]) <= 3
       /\ Len(sec) = 2
       /\ Len(sec[1]) \in 1..2 /\ AllDigits(sec[1])
       /\ Len(sec[2]) = 3 /\ AllDigits(sec[2])
       /\ Denoted(text).minutes < 60
       /\ Denoted(text).seconds < 60

CanonicalTimestamp(text, sep) ==
    LET t == Denoted(text)
    IN Pad(t.hours, 2) \o <<":">> \o Pad(t.minutes, 2) \o <<":">> \o Pad(t.seconds, 2) \o <<sep>> \o Pad(t.millis, 3)

\* C19: for a syntactically valid timestamp text, formatting the parsed
\* value gives the canonical zero-padded text of the same instant with the
\* same milliseconds, with '.' from the dot-style formatter and ',' from the
\* comma-style one, and with the hours in full.
C19_RoundTrip ==
    fn.op = "parse_timestamp" /\ SyntacticallyValid(fn.text) /\ fn.dot # NoTimestamp =>
        /\ fn.dot = CanonicalTimestamp(fn.text, ".")
        /\ fn.comma = CanonicalTimestamp(fn.text, ",")

\* =====================================================================
\* Output folders of runs that share base_dir, title and minute
\* =====================================================================
\* Folder k is {title}_transcript_{YYMMDD-HHMM} for k = 0 and the same name
\* with the suffix _k for k > 0. Folders 0..MaxExisting may be there before
\* the first run.
MaxExisting == 2

NoFolder == -1

IdleRun == [pc |-> "idle", suffix |-> 0, before |-> {}, folder |-> NoFolder]

InitFolder ==
    /\ InitTask
    /\ fn \in [op : {"create_output_folder"}, dirs : SUBSET (0..MaxExisting),
               intermediate : {{}}, run : {[w \in Workers |-> IdleRun]}]

At(w, step) == fn.op = "create_output_folder" /\ fn.run[w].pc = step

\* task_manager.py line 220: the run calls _create_output_folder
CallCreateOutputFolder(w) ==
    /\ At(w, "idle")
    /\ fn' = [fn EXCEPT !.run[w] = [@ EXCEPT !.pc = "exists", !.before = fn.dirs]]
    /\ UNCHANGED taskVars

\* lines 414 and 422: os.path.exists on the name without a suffix, then on
\* the names with the suffixes 1, 2, ...
PathExists(w) ==
    /\ At(w, "exists")
    /\ fn' = [fn EXCEPT !.run[w] = IF @.suffix \in fn.dirs
                                    THEN [@ EXCEPT !.suffix = @ + 1]
                                    ELSE [@ EXCEPT !.pc = "makedirs"]]
    /\ UNCHANGED taskVars

\* lines 415-416 and 423-424: os.makedirs creates the folder and the call
\* returns it, or raises FileExistsError when the folder is there by now;
\* the error ends the run at line 363
Makedirs(w) ==
    /\ At(w, "makedirs")
    /\ fn' = IF fn.run[w].suffix \in fn.dirs
             THEN [fn EXCEPT !.run[w].pc = "error"]
             ELSE [fn EXCEPT !.dirs = @ \cup {fn.run[w].suffix},
                             !.run[w] = [@ EXCEPT !.pc = "returned", !.folder = fn.run[w].suffix]]
    /\ UNCHANGED taskVars

\* lines 221-222: the intermediate directory inside the returned folder
MakeIntermediate(w) ==
    /\ At(w, "returned")
    /\ fn' = [fn EXCEPT !.intermediate = @ \cup {fn.run[w].folder}, !.run[w].pc = "running"]
    /\ UNCHANGED taskVars

NextFolder ==
    \E w \in Workers : CallCreateOutputFolder(w) \/ PathExists(w) \/ Makedirs(w) \/ MakeIntermediate(w)

SpecFolder == InitFolder /\ [][NextFolder]_vars

HasFolder(w) == fn.run[w].pc \in {"returned", "running"}

\* C20: every run gets a folder that did not exist before its call, no two
\* runs get the same folder, and no run fails, whether the runs follow one
\* another or their existence checks and folder creations interleave.
C20_FreshFolders ==
    fn.op = "create_output_folder" =>
        \A w \in Workers :
            /\ fn.run[w].pc # "error"
            /\ HasFolder(w) => fn.run[w].folder \notin fn.run[w].before
            /\ \A v \in Workers \ {w} : HasFolder(w) /\ HasFolder(v) => fn.run[w].folder # fn.run[v].folder

\* =====================================================================
\* Cancellation and the collaborators
\* =====================================================================

\* C21: once cancel() has returned, the running task begins no collaborator
\* call without looking at the cancelled flag, and no collaborator call in
\* flight goes on past a progress callback.
C21_NoCallAfterCancel == obs.afterCancel = {}

\* =====================================================================
\* The command line (main.py), full mode
\* =====================================================================

\* main.py line 229: a parsed transcript counts when it is longer than this
MinTranscript == 50

\* lengths of the text parse_subtitle_file or transcribe_audio returns
\* (0: None or the empty string)
TranscriptLengths == {0, MinTranscript, MinTranscript + 1}

NoFile == "none"

\* main.py lines 164-173: the full mode with its options; transcript is the
\* length of the text held, audio_file whether download_audio returned a path
CliCalls ==
    [op : {"main"}, at : {"phase1"}, no_subtitle : BOOLEAN, output : BOOLEAN, format : Formats,
     transcript : {0}, method_used : {"none"}, audio_file : {FALSE}, called : {{}},
     output_file : {NoFile}, written : {FALSE}, exit : {-1}]

InitCli ==
    /\ InitTask
    /\ fn \in CliCalls

\* sys.exit(code), or the return of main() (code 0)
Exit(c, code) == [c EXCEPT !.at = "exited", !.exit = code]

\* lines 176-199 and 243-244: --no-subtitle skips phase 1; otherwise
\* check_subtitle_availability reports subtitles, reports none, or raises
CheckAvailability ==
    /\ fn.op = "main"
    /\ fn.at = "phase1"
    /\ IF fn.no_subtitle
       THEN fn' = [fn EXCEPT !.at = "phase2"]
       ELSE \E outcome \in {"has_subtitles", "none", "raised"} :
            fn' = [fn EXCEPT !.called = @ \cup {"check_subtitle_availability"},
                             !.at = IF outcome = "has_subtitles" THEN "download" ELSE "phase2"]
    /\ UNCHANGED taskVars

\* lines 208-216 and 239-244: download_subtitle succeeds, fails or raises
CliDownloadSubtitle ==
    /\ fn.op = "main"
    /\ fn.at = "download"
    /\ \E success \in BOOLEAN :
        fn' = [fn EXCEPT !.called = @ \cup {"download_subtitle"},
                         !.at = IF success THEN "parse" ELSE "phase2"]
    /\ UNCHANGED taskVars

\* lines 225-238: parse_subtitle_file returns a text or raises (length 0
\* stands for both None and the exception); a short text is dropped
ParseSubtitleFile ==
    /\ fn.op = "main"
    /\ fn.at = "parse"
    /\ \E length \in TranscriptLengths :
        fn' = IF length > MinTranscript
              THEN [fn EXCEPT !.called = @ \cup {"parse_subtitle_file"}, !.transcript = length,
                              !.method_used = "subtitle", !.at = "save"]
              ELSE [fn EXCEPT !.called = @ \cup {"parse_subtitle_file"}, !.at = "phase2"]
    /\ UNCHANGED taskVars

\* lines 252-268: phase 2 runs when no transcript is held
CliDownloadAudio ==
    /\ fn.op = "main"
    /\ fn.at = "phase2"
    /\ \E audio_file \in BOOLEAN :
        fn' = IF audio_file
              THEN [fn EXCEPT !.called = @ \cup {"download_audio"}, !.audio_file = TRUE, !.at = "transcribe"]
              ELSE Exit([fn EXCEPT !.called = @ \cup {"download_audio"}], 1)
    /\ UNCHANGED taskVars

\* lines 270-278
TranscribeAudio ==
    /\ fn.op = "main"
    /\ fn.at = "transcribe"
    /\ \E length \in TranscriptLengths :
        fn' = [fn EXCEPT !.called = @ \cup {"transcribe_audio"}, !.transcript = length,
                         !.method_used = "whisper", !.at = "save"]
    /\ UNCHANGED taskVars

\* lines 283-288: the name given with -o, or one generated from the name of
\* the audio file; os.path.basename(None) raises TypeError
OutputFile(c) ==
    IF c.output THEN "given"
    ELSE IF c.audio_file THEN "generated"
    ELSE NoFile

\* lines 280-314 and 342-350: with a transcript, choose the file name and
\* write; an exception (from the name or from the write) ends in exit(1)
SaveTranscriptFile ==
    /\ fn.op = "main"
    /\ fn.at = "save"
    /\ IF fn.transcript = 0 THEN fn' = Exit(fn, 0)
       ELSE IF OutputFile(fn) = NoFile THEN fn' = Exit(fn, 1)
       ELSE \E written \in BOOLEAN :
            fn' = Exit([fn EXCEPT !.output_file = OutputFile(fn), !.written = written],
                       IF written THEN 0 ELSE 1)
    /\ UNCHANGED taskVars

NextCli ==
    \/ CheckAvailability
    \/ CliDownloadSubtitle
    \/ ParseSubtitleFile
    \/ CliDownloadAudio
    \/ TranscribeAudio
    \/ SaveTranscriptFile

SpecCli == InitCli /\ [][NextCli]_vars

\* the run ended after phase 1 had produced the transcript, and no write
\* of the output file failed
SubtitleTranscript ==
    /\ fn.op = "main"
    /\ fn.at = "exited"
    /\ fn.method_used = "subtitle"
    /\ ~(fn.output_file # NoFile /\ ~fn.written)

\* C22: in full mode, a subtitle transcript longer than 50 characters is
\* saved to the output file and the program ends successfully without
\* download_audio or transcribe_audio, with -o and without it.
C22_SubtitleTranscriptSaved ==
    SubtitleTranscript =>
        /\ fn.written
        /\ fn.exit = 0
        /\ fn.called \cap {"download_audio", "transcribe_audio"} = {}

\* =====================================================================
\* What the two paths write
\* =====================================================================
EmitTexts == {Hello, TagOnly, NarrowGap}

\* cues of 3.066 s each: the first at 0 or at 6 s, a later one right after
\* the cue before it, 5 s after it, or 5.001 s after it
RECURSIVE EmitTimed(_, _, _)
EmitTimed(texts, prev_end, gaps) ==
    IF texts = <<>> THEN {<<>>}
    ELSE UNION {{<<[start |-> prev_end + d, end |-> prev_end + d + 3066, text |-> texts[1]]>> \o rest :
                    rest \in EmitTimed(Tail(texts), prev_end + d + 3066, {0, paragraph_gap_default, paragraph_gap_default + 1})} :
                d \in gaps}

EmitInputs ==
    UNION {EmitTimed(texts, 0, {0, 6000}) : texts \in UNION {[1..n -> EmitTexts] : n \in 0..MaxCues}}

EmitCalls ==
    [op : {"save", "transcribe"}, segments : EmitInputs, output_format : Formats,
     with_timestamps : BOOLEAN, done : {FALSE}, out : {<<>>}]
    \cup [op : {"clean_subtitle_text"}, segments : EmitInputs, output_format : {"text"},
          with_timestamps : {FALSE}, done : {FALSE}, out : {<<>>}]

InitEmit ==
    /\ InitTask
    /\ fn \in EmitCalls

\* SubtitleManager.save on loaded segments: the content it writes
SaveCall ==
    /\ fn.op = "save"
    /\ ~fn.done
    /\ fn' = [fn EXCEPT !.done = TRUE, !.out = SaveContent(fn.segments, fn.output_format, fn.with_timestamps)]
    /\ UNCHANGED taskVars

\* subtitle_parser.clean_subtitle_text returns
CleanCall ==
    /\ fn.op = "clean_subtitle_text"
    /\ ~fn.done
    /\ fn' = [fn EXCEPT !.done = TRUE, !.out = clean_subtitle_text(fn.segments)]
    /\ UNCHANGED taskVars

\* task_manager.py lines 323-330: transcribe is handed output_format, and
\* with_timestamps is not among its parameters
TranscribeCall ==
    /\ fn.op = "transcribe"
    /\ ~fn.done
    /\ fn' = [fn EXCEPT !.done = TRUE, !.out = TranscribeResult(fn.segments, fn.output_format)]
    /\ UNCHANGED taskVars

NextEmit == SaveCall \/ CleanCall \/ TranscribeCall

SpecEmit == InitEmit /\ [][NextEmit]_vars

Emitted(ops) == fn.op \in ops /\ fn.done

\* C23: with output format srt or vtt, save() writes the cues of the
\* normalized segments (cleaned, empty ones dropped, adjacent duplicates
\* dropped), so two consecutive cues of one text give one cue.
C23_CuesNormalized ==
    Emitted({"save"}) /\ fn.output_format \in {"srt", "vtt"} =>
        fn.out = SaveContent(DedupedSegments(fn.segments), fn.output_format, FALSE)

\* a line that begins with a "[start -> end]" stamp
TimePrefixed(line) == Len(line) >= 2 /\ line[1] = "[" /\ line[2] \in DigitChars

\* C24: with output_format text and with_timestamps False, no line of the
\* artifact has a "[start -> end]" prefix, on the subtitle path and on the
\* transcription path alike.
C24_NoStampsUnlessAsked ==
    Emitted({"save", "transcribe"}) /\ fn.output_format = "text" /\ ~fn.with_timestamps =>
        LET lines == SplitLines(fn.out)
        IN \A i \in 1..Len(lines) : ~TimePrefixed(lines[i])

\* the number of blank lines right before each line that is not blank
RECURSIVE BlankCounts(_, _)
BlankCounts(lines, pending) ==
    IF lines = <<>> THEN <<>>
    ELSE IF lines[1] = <<>> THEN BlankCounts(Tail(lines), pending + 1)
    ELSE <<pending>> \o BlankCounts(Tail(lines), 0)

\* one blank line before a surviving segment that is not the first and
\* starts more than the threshold after the end of the one before it
ParagraphBreaks(segs) ==
    [i \in 1..Len(segs) |->
        IF i > 1 /\ segs[i].start - segs[i - 1].end > paragraph_gap_default THEN 1 ELSE 0]

\* C25: in the plain text of to_text and clean_subtitle_text a blank line
\* stands before a surviving segment iff it is not the first one emitted
\* and its start is more than the threshold after the end of the surviving
\* segment before it; a gap equal to the threshold gives none, a late first
\* segment gives none, and there is never more than one.
C25_ParagraphBreaks ==
    Emitted({"save", "clean_subtitle_text"}) /\ fn.output_format = "text" =>
        BlankCounts(SplitLines(fn.out), 0) = ParagraphBreaks(DedupedSegments(fn.segments))

\* =====================================================================
\* The generic parser
\* =====================================================================

\* the trimmed lines that are not blank, not an index of digits, hold no
\* arrow and begin with neither WEBVTT nor NOTE, in input order
RECURSIVE TextLines(_)
TextLines(lines) ==
    IF lines = <<>> THEN <<>>
    ELSE LET line == Strip(lines[1])
             text == /\ line # <<>>
                     /\ ~AllDigits(line)
                     /\ ~Contains(line, Arrow)
                     /\ ~StartsWithAt(line, 1, Header)
                     /\ ~StartsWithAt(line, 1, Note)
         IN (IF text THEN <<line>> ELSE <<>>) \o TextLines(Tail(lines))

\* C26: the generic parser returns, in input order, one segment with
\* start = end = 0 for every such line, short lines included, with the
\* trimmed line as its text, and nothing else.
C26_GenericKeepsEveryLine ==
    fn.op = "parse_generic" /\ fn.done =>
        LET lines == TextLines(Split(fn.text, NL))
        IN /\ ~fn.out.raised
           /\ fn.out.segments = [i \in 1..Len(lines) |-> [start |-> Zero, end |-> Zero, text |-> lines[i]]]

\* =====================================================================
\* The percent values, as floats
\* =====================================================================

\* task_manager.py line 294: 20 + (percent * 0.3), for a whole percent
DownloadMapped(percent) == FloatAdd(FloatOfInt(20), FloatTimes(FloatOfRatio(3, 10), percent))

\* task_manager.py lines 319-320: 55 + ((current / total) * 40)
TranscribeMapped(current, total) == FloatAdd(FloatOfInt(55), FloatTimes(FloatOfRatio(current, total), 40))

\* the literal percents of _run_task (lines 199, 235, 246, 261, 269, 277,
\* 290, 314, 343 and 358)
StagePercents == {5, 10, 20, 60, 80, 100, 55, 95}

\* segment counts and audio positions (in thousandths of a second) at a
\* callback of transcribe
SegmentCounts == 0..(4 * ProgressEvery)
LastEnds == {0, 2999, 3000, 14000, 15000, 16000, 47000, 300000}

NotReported == Float(<<>>, -1)

ProgressCalls ==
    [op : {"stage", "download_progress"}, current : 0..100, total : {100}, done : {FALSE}, mapped : {NotReported}]
    \cup [op : {"loop_callback", "final_callback"}, current : SegmentCounts, total : LastEnds,
          done : {FALSE}, mapped : {NotReported}]

InitProgress ==
    /\ InitTask
    /\ fn \in {c \in ProgressCalls :
                /\ c.op = "stage" => c.current \in StagePercents
                /\ c.op = "loop_callback" => c.current > 0 /\ c.current % ProgressEvery = 0}

\* _progress(percent, stage) with a literal percent
StageProgress ==
    /\ fn.op = "stage"
    /\ ~fn.done
    /\ fn' = [fn EXCEPT !.done = TRUE, !.mapped = FloatOfInt(fn.current)]
    /\ UNCHANGED taskVars

\* lines 292-295: download_progress(percent)
DownloadProgress ==
    /\ fn.op = "download_progress"
    /\ ~fn.done
    /\ fn' = [fn EXCEPT !.done = TRUE, !.mapped = DownloadMapped(fn.current)]
    /\ UNCHANGED taskVars

\* lines 316-321: transcribe_progress(current, total) reports for total > 0
Report(c, current, total) ==
    [c EXCEPT !.done = TRUE, !.current = current, !.total = total,
              !.mapped = IF total > 0 THEN TranscribeMapped(current, total) ELSE NotReported]

\* transcribe_manager.py lines 227-230: the callback after every fifth
\* segment, fn.total being the end of that segment
LoopCallback ==
    /\ fn.op = "loop_callback"
    /\ ~fn.done
    /\ fn' = Report(fn, fn.current, EstimatedTotal(fn.current, fn.total))
    /\ UNCHANGED taskVars

\* transcribe_manager.py line 243: progress(segment_count, segment_count)
FinalCallback ==
    /\ fn.op = "final_callback"
    /\ ~fn.done
    /\ fn' = Report(fn, fn.current, fn.current)
    /\ UNCHANGED taskVars

NextProgress == StageProgress \/ DownloadProgress \/ LoopCallback \/ FinalCallback

SpecProgress == InitProgress /\ [][NextProgress]_vars

Within(x, low, high) == FloatLeq(FloatOfInt(low), x) /\ FloatLeq(x, FloatOfInt(high))

\* C27: every percent reported lies in 0..100 and in the range of its
\* stage: 20 + 0.3 p in [20, 50] for a download percent p in 0..100;
\* 55 + 40 current / total in [55, 95] for total > 0, with current <= total
\* at every callback of transcribe; nothing is reported for total = 0.  The
\* whole part of the float reported is the integer the task model records.
C27_PercentInRange ==
    fn.op \in {"stage", "download_progress", "loop_callback", "final_callback"} /\ fn.done =>
        /\ fn.mapped # NotReported => Within(fn.mapped, 0, 100)
        /\ fn.op = "download_progress" =>
            /\ Within(fn.mapped, 20, 50)
            /\ FloatFloor(fn.mapped) = download_progress(fn.current)
        /\ fn.op \in {"loop_callback", "final_callback"} /\ fn.total > 0 =>
            /\ fn.current <= fn.total
            /\ Within(fn.mapped, 55, 95)
            /\ FloatFloor(fn.mapped) = transcribe_progress(fn.current, fn.total)
        /\ fn.op \in {"loop_callback", "final_callback"} /\ fn.total = 0 => fn.mapped = NotReported
        /\ fn.op \in {"stage", "download_progress"} => fn.mapped # NotReported

\* a callback in the loop whose total is the estimate from the audio
\* position, and the download at 100 percent
C27_Witness ==
    \/ fn.op = "loop_callback" /\ fn.done /\ fn.total > fn.current /\ fn.mapped # NotReported
    \/ fn.op = "download_progress" /\ fn.done /\ fn.current = 100 /\ fn.mapped = FloatOfInt(50)

\* =====================================================================
\* WhisperModelManager
\* =====================================================================

\* calls made on one manager
MaxCalls == 3

None == "None"

ModelSizes == {"tiny", "medium"}
Devices == {"auto", "cpu", "cuda"}

\* transcribe_manager.py lines 33-37; model: a WhisperModel is held
NewManager ==
    [model |-> FALSE, current_model_size |-> None, current_device |-> None, current_compute_type |-> None]

\* lines 39-42
is_loaded(m) == m.model

\* lines 76-82: torch reports whether CUDA is there
ResolveDevice(device, cuda) == IF device = "auto" THEN (IF cuda THEN "cuda" ELSE "cpu") ELSE device

\* what a call did: the manager after it, its return value, whether the
\* WhisperModel constructor was called and whether a held model was dropped
Did(m, returned, built, released) == [m |-> m, returned |-> returned, built |-> built, released |-> released]

\* Faulty variant of lines 120-124: the failure handler leaves
\* _current_model_size as it was.
load_model_KeepsSize(m, model_size, device, constructs) ==
    LET compute_type == IF device = "cuda" THEN "float16" ELSE "int8"
    IN IF m.model /\ m.current_model_size = model_size /\ m.current_device = device
       THEN Did(m, TRUE, FALSE, FALSE)
       ELSE IF constructs
       THEN Did([model |-> TRUE, current_model_size |-> model_size, current_device |-> device,
                 current_compute_type |-> compute_type], TRUE, TRUE, m.model)
       ELSE Did([m EXCEPT !.model = FALSE], FALSE, TRUE, m.model)

\* lines 84-124, for the resolved device: reuse, or release and construct;
\* the constructor returns or raises
load_model(m, model_size, device, constructs) ==
    LET compute_type == IF device = "cuda" THEN "float16" ELSE "int8"
    IN IF m.model /\ m.current_model_size = model_size /\ m.current_device = device
       THEN Did(m, TRUE, FALSE, FALSE)
       ELSE IF constructs
       THEN Did([model |-> TRUE, current_model_size |-> model_size, current_device |-> device,
                 current_compute_type |-> compute_type], TRUE, TRUE, m.model)
       ELSE Did([m EXCEPT !.model = FALSE, !.current_model_size = None], FALSE, TRUE, m.model)

\* lines 126-142
unload_model(m) == IF m.model THEN Did(NewManager, TRUE, FALSE, TRUE) ELSE Did(m, TRUE, FALSE, FALSE)

NoLast == [call |-> "none", before |-> NewManager, model_size |-> None, device |-> None,
           returned |-> FALSE, built |-> FALSE, released |-> FALSE]

InitManager ==
    /\ InitTask
    /\ fn = [op |-> "manager", m |-> NewManager, calls |-> 0, last |-> NoLast]

Called(name, model_size, device, did) ==
    [op |-> "manager", m |-> did.m, calls |-> fn.calls + 1,
     last |-> [call |-> name, before |-> fn.m, model_size |-> model_size, device |-> device,
               returned |-> did.returned, built |-> did.built, released |-> did.released]]

LoadModel ==
    /\ fn.op = "manager"
    /\ fn.calls < MaxCalls
    /\ \E model_size \in ModelSizes, requested \in Devices, cuda \in BOOLEAN, constructs \in BOOLEAN :
        LET device == ResolveDevice(requested, cuda)
        IN fn' = Called("load_model", model_size, device, load_model(fn.m, model_size, device, constructs))
    /\ UNCHANGED taskVars

UnloadModel ==
    /\ fn.op = "manager"
    /\ fn.calls < MaxCalls
    /\ fn' = Called("unload_model", None, None, unload_model(fn.m))
    /\ UNCHANGED taskVars

\* lines 177-189 and 191-255: without the audio file transcribe returns
\* None before load_model; after load_model it changes nothing of the manager
ManagerTranscribe ==
    /\ fn.op = "manager"
    /\ fn.calls < MaxCalls
    /\ \E exists \in BOOLEAN, model_size \in ModelSizes, cuda \in BOOLEAN, constructs \in BOOLEAN, transcribed \in BOOLEAN :
        LET device == ResolveDevice("auto", cuda)
            did == load_model(fn.m, model_size, device, constructs)
        IN fn' = IF exists
                 THEN Called("transcribe", model_size, device, [did EXCEPT !.returned = @ /\ transcribed])
                 ELSE Called("transcribe", model_size, device, Did(fn.m, FALSE, FALSE, FALSE))
    /\ UNCHANGED taskVars

NextManager == LoadModel \/ UnloadModel \/ ManagerTranscribe

SpecManager == InitManager /\ [][NextManager]_vars

\* the last call was a load_model request for what is loaded already
SameAsLoaded ==
    /\ fn.last.before.model
    /\ fn.last.before.current_model_size = fn.last.model_size
    /\ fn.last.before.current_device = fn.last.device

\* C28: between calls is_loaded holds iff the recorded model size is not
\* None; a load_model request for the loaded size and resolved device
\* constructs nothing and returns True; any other request releases the old
\* model and calls the constructor; after a failed load no model is held.
C28_ManagerState ==
    fn.op = "manager" =>
        /\ is_loaded(fn.m) <=> fn.m.current_model_size # None
        /\ fn.last.call = "load_model" =>
            /\ SameAsLoaded => ~fn.last.built /\ fn.last.returned /\ fn.m = fn.last.before
            /\ ~SameAsLoaded => fn.last.built /\ (fn.last.released <=> fn.last.before.model)
            /\ ~fn.last.returned => ~is_loaded(fn.m)
            /\ fn.last.returned => /\ is_loaded(fn.m)
                                   /\ fn.m.current_model_size = fn.last.model_size
                                   /\ fn.m.current_device = fn.last.device

\* a load of another size failed after a model had been loaded
C28_Witness ==
    /\ fn.op = "manager"
    /\ fn.last.call = "load_model"
    /\ fn.last.before.model
    /\ ~fn.last.returned
    /\ ~is_loaded(fn.m)

\* =====================================================================
\* Every run ends, with one completion notification
\* =====================================================================

\* The worker thread goes on running as long as every collaborator call
\* returns: a worker step that stays possible is taken.
SpecRunFair == SpecRun /\ WF_vars(WorkerStep)

\* the run of the latest accepted start() has ended
RunEnded == nStarted > 0 /\ pc[nStarted] = "done"

\* one notification per run, delivered after the terminal status was set
\* and matching it
RunAccounting ==
    /\ Len(obs.completions) <= 1
    /\ nStarted > 0 /\ ~RunEnded => obs.completions = <<>>
    /\ RunEnded =>
        /\ status \in Terminal
        /\ status \in obs.entered
        /\ ~obs.afterDone
        /\ Len(obs.completions) = 1
        /\ obs.completions[1].success <=> status = COMPLETED
        /\ obs.completions[1].success =>
            obs.completions[1].output_path # NoPath
        /\ ~obs.completions[1].success =>
            /\ obs.completions[1].output_path = NoPath
            /\ obs.completions[1].error # NoError

\* C29: every accepted start() leads, each collaborator call returning, to
\* a terminal status; the completion notification comes exactly once per
\* accepted start(), after the terminal status was set, with success and a
\* path iff that status is Completed and with no path and an error message
\* otherwise.
C29_EveryRunCompletes ==
    /\ []RunAccounting
    /\ \A w \in Workers : (pc[w] = "init") ~> (pc[w] = "done" /\ status \in Terminal)

\* a second run has ended in Cancelled after the first one ended
C29_Witness ==
    /\ nStarted = MaxRuns
    /\ RunEnded
    /\ status = CANCELLED
    /\ obs.completions = <<CancelledCompletion>>

\* =====================================================================
\* The order of the percent values
\* =====================================================================

\* C30: within one run the percent delivered by the progress notification
\* never decreases from one notification to the next, on every path, the
\* fallback from the subtitle branch to DownloadingAudio included (every
\* collaborator reporting its own progress in non-decreasing order).
C30_ProgressMonotone == obs.drops = {}

============================================================================
